---- MODULE Spec2Model ----
(***************************************************************************)
(* Model of the Telegram forward bot: the text pipeline of                 *)
(* message_processor.py, the admin dispatcher of admin.py and the event    *)
(* handlers of main.py.  Texts are sequences of one-character strings, so  *)
(* that the regular expressions of the source are computed, not assumed.   *)
(***************************************************************************)
EXTENDS Integers, Sequences, FiniteSets, TLC

----------------------------------------------------------------------------
(* Characters and character classes used by the regular expressions.       *)

LowerSeq ==
  <<"a","b","c","d","e","f","g","h","i","j","k","l","m",
    "n","o","p","q","r","s","t","u","v","w","x","y","z">>

UpperSeq ==
  <<"A","B","C","D","E","F","G","H","I","J","K","L","M",
    "N","O","P","Q","R","S","T","U","V","W","X","Y","Z">>

LowerCh == {LowerSeq[i] : i \in 1..26}

UpperCh == {UpperSeq[i] : i \in 1..26}

DigitCh == {"0","1","2","3","4","5","6","7","8","9"}

AlphaCh == LowerCh \cup UpperCh

WordCh == AlphaCh \cup DigitCh \cup {"_"}

LabelCh == AlphaCh \cup DigitCh \cup {"-"}

SpaceCh == {" ", "\n", "\t"}

EmojiCh == {"EMOJI_A", "EMOJI_B"}

lower(c) ==
  IF c \in UpperCh THEN LowerSeq[CHOOSE i \in 1..26 : UpperSeq[i] = c] ELSE c

lower_str(t) == [i \in 1..Len(t) |-> lower(t[i])]

----------------------------------------------------------------------------
(* Regular-expression primitives.  A position is an index into the text;   *)
(* every After operator takes the position j a match has reached (0 when   *)
(* it has already failed) and returns the position after the next piece of *)
(* the pattern, 0 when that piece does not match.                          *)

MinOf(S) == CHOOSE x \in S : \A y \in S : x <= y

MaxOf(S) == CHOOSE x \in S : \A y \in S : x >= y

\* the length of the run of characters of S that starts at position i
RECURSIVE RunIn(_, _, _)
RunIn(S, t, i) ==
  IF i < 1 \/ i > Len(t) THEN 0
  ELSE IF t[i] \in S THEN 1 + RunIn(S, t, i + 1)
  ELSE 0

\* the length of the run of characters outside S that starts at position i
RECURSIVE RunNotIn(_, _, _)
RunNotIn(S, t, i) ==
  IF i < 1 \/ i > Len(t) THEN 0
  ELSE IF t[i] \notin S THEN 1 + RunNotIn(S, t, i + 1)
  ELSE 0

\* the word w stands at position i (re.IGNORECASE)
HasAt(t, i, w) ==
  /\ i >= 1
  /\ i + Len(w) - 1 <= Len(t)
  /\ \A k \in 1..Len(w) : lower(t[i + k - 1]) = w[k]

CharAt(t, i, c) == i >= 1 /\ i <= Len(t) /\ t[i] = c

\* (?:w1|w2|..): the first alternative that stands at j
AfterWord(t, j, words) ==
  IF j = 0 \/ \A k \in 1..Len(words) : ~HasAt(t, j, words[k]) THEN 0
  ELSE j + Len(words[MinOf({k \in 1..Len(words) : HasAt(t, j, words[k])})])

\* (?:w1|w2|..)?
AfterOptWord(t, j, words) ==
  IF AfterWord(t, j, words) = 0 THEN j ELSE AfterWord(t, j, words)

\* a single character c
AfterChar(t, j, c) == IF j > 0 /\ CharAt(t, j, c) THEN j + 1 ELSE 0

\* c?
AfterOptChar(t, j, c) == IF j > 0 /\ CharAt(t, j, c) THEN j + 1 ELSE j

\* [S]*
AfterRun(S, t, j) == IF j = 0 THEN 0 ELSE j + RunIn(S, t, j)

\* [S]{least,}
AfterRunOf(S, t, j, least) ==
  IF j > 0 /\ RunIn(S, t, j) >= least THEN j + RunIn(S, t, j) ELSE 0

\* [^S]*
AfterRunNot(S, t, j) == IF j = 0 THEN 0 ELSE j + RunNotIn(S, t, j)

\* [^S]+
AfterRunNotOf(S, t, j) ==
  IF j > 0 /\ RunNotIn(S, t, j) >= 1 THEN j + RunNotIn(S, t, j) ELSE 0

\* the length of the match that started at i and reached position j
Matched(i, j) == IF j = 0 THEN 0 ELSE j - i

W_https == <<"h","t","t","p","s",":","/","/">>

W_http == <<"h","t","t","p",":","/","/">>

W_www == <<"w","w","w",".">>

W_tme == <<"t",".","m","e">>

W_telegramme == <<"t","e","l","e","g","r","a","m",".","m","e">>

W_tgscheme == <<"t","g",":","/","/">>

W_join == <<"j","o","i","n">>

W_channel == <<"c","h","a","n","n","e","l">>

W_group == <<"g","r","o","u","p">>

W_chat == <<"c","h","a","t">>

W_telegram == <<"t","e","l","e","g","r","a","m">>

W_tg == <<"t","g">>

\* https?://[^\s]+
m_http(t, i) ==
  Matched(i, AfterRunNotOf(SpaceCh, t, AfterWord(t, i, <<W_https, W_http>>)))

\* www\.[^\s]+
m_www(t, i) ==
  Matched(i, AfterRunNotOf(SpaceCh, t, AfterWord(t, i, <<W_www>>)))

\* [a-zA-Z0-9-]+\.[a-zA-Z]{2,}[^\s]*
m_domain(t, i) ==
  Matched(i, AfterRunNot(SpaceCh, t,
               AfterRunOf(AlphaCh, t,
                 AfterChar(t, AfterRunOf(LabelCh, t, i, 1), "."), 2)))

\* (?:https?://)?(?:t\.me|telegram\.me)/[^\s]+
m_tme(t, i) ==
  Matched(i, AfterRunNotOf(SpaceCh, t,
               AfterChar(t,
                 AfterWord(t, AfterOptWord(t, i, <<W_https, W_http>>),
                           <<W_tme, W_telegramme>>), "/")))

\* @[a-zA-Z0-9_]+
m_mention(t, i) == Matched(i, AfterRunOf(WordCh, t, AfterChar(t, i, "@"), 1))

\* tg://[^\s]+
m_tg(t, i) ==
  Matched(i, AfterRunNotOf(SpaceCh, t, AfterWord(t, i, <<W_tgscheme>>)))

\* the tail shared by both channel patterns: [\s]*@?[a-zA-Z0-9_]+
AfterHandle(t, j) ==
  AfterRunOf(WordCh, t, AfterOptChar(t, AfterRun(SpaceCh, t, j), "@"), 1)

\* (?:join|channel|group)[\s]*:[\s]*@?[a-zA-Z0-9_]+
m_join(t, i) ==
  Matched(i, AfterHandle(t,
               AfterChar(t,
                 AfterRun(SpaceCh, t,
                   AfterWord(t, i, <<W_join, W_channel, W_group>>)), ":")))

\* (?:telegram|tg)[\s]*(?:channel|group|chat)[\s]*:?[\s]*@?[a-zA-Z0-9_]+
m_tgchannel(t, i) ==
  Matched(i, AfterHandle(t,
               AfterOptChar(t,
                 AfterRun(SpaceCh, t,
                   AfterWord(t,
                     AfterRun(SpaceCh, t,
                       AfterWord(t, i, <<W_telegram, W_tg>>)),
                     <<W_channel, W_group, W_chat>>)), ":")))

\* \n\s*\n: the greedy \s* gives back as far as the last line break
m_blank(t, i) ==
  IF CharAt(t, i, "\n")
       /\ \E j \in (i + 1)..(i + RunIn(SpaceCh, t, i + 1)) : t[j] = "\n"
    THEN MaxOf({j \in (i + 1)..(i + RunIn(SpaceCh, t, i + 1)) :
                  t[j] = "\n"}) - i + 1
  ELSE 0

\* [S]{4,}
m_four(S, t, i) == Matched(i, AfterRunOf(S, t, i, 4))

url_patterns == <<"http", "www", "domain">>

telegram_patterns == <<"tme", "mention", "tg">>

channel_patterns == <<"join", "tgchannel">>

MatchLen(p, t, i) ==
  CASE p = "http"      -> m_http(t, i)
    [] p = "www"       -> m_www(t, i)
    [] p = "domain"    -> m_domain(t, i)
    [] p = "tme"       -> m_tme(t, i)
    [] p = "mention"   -> m_mention(t, i)
    [] p = "tg"        -> m_tg(t, i)
    [] p = "join"      -> m_join(t, i)
    [] p = "tgchannel" -> m_tgchannel(t, i)
    [] p = "blank"     -> m_blank(t, i)
    [] p = "spaces"    -> RunIn(SpaceCh, t, i)
    [] p = "emoji"     -> m_four(EmojiCh, t, i)
    [] p = "bang"      -> m_four({"!"}, t, i)
    [] p = "quest"     -> m_four({"?"}, t, i)
    [] p = "dots"      -> m_four({"."}, t, i)
    [] p = "caps"      -> m_four(UpperCh, t, i)

\* faulty variant: a run of whitespace is replaced by two spaces
Replacement_widening_spaces(p, t, i, n) ==
  CASE p = "blank"  -> <<"\n">>
    [] p = "spaces" -> <<" ", " ">>
    [] p = "emoji"  -> <<t[i + n - 1], t[i + n - 1], t[i + n - 1]>>
    [] p = "bang"   -> <<"!", "!", "!">>
    [] p = "quest"  -> <<"?", "?", "?">>
    [] p = "dots"   -> <<".", ".", ".">>
    [] p = "caps"   -> <<t[i], t[i + 1], t[i + 2]>>
    [] OTHER        -> <<>>

\* the replacement re.sub writes for the match of length n found at i
Replacement(p, t, i, n) ==
  CASE p = "blank"  -> <<"\n">>
    [] p = "spaces" -> <<" ">>
    [] p = "emoji"  -> <<t[i + n - 1], t[i + n - 1], t[i + n - 1]>>
    [] p = "bang"   -> <<"!", "!", "!">>
    [] p = "quest"  -> <<"?", "?", "?">>
    [] p = "dots"   -> <<".", ".", ".">>
    [] p = "caps"   -> <<t[i], t[i + 1], t[i + 2]>>
    [] OTHER        -> <<>>

\* pattern.sub(replacement, text) from position i on, n being the length of
\* the match at i: leftmost non-overlapping matches
RECURSIVE re_sub_from(_, _, _, _)
re_sub_from(p, t, i, n) ==
  IF i > Len(t) THEN <<>>
  ELSE IF n > 0
    THEN Replacement(p, t, i, n)
           \o re_sub_from(p, t, i + n, MatchLen(p, t, i + n))
  ELSE <<t[i]>> \o re_sub_from(p, t, i + 1, MatchLen(p, t, i + 1))

re_sub(p, t) == re_sub_from(p, t, 1, MatchLen(p, t, 1))

\* for pattern in patterns: text = pattern.sub(.., text)
RECURSIVE sub_all(_, _, _)
sub_all(ps, k, t) ==
  IF k > Len(ps) THEN t ELSE sub_all(ps, k + 1, re_sub(ps[k], t))

\* str.strip()
strip(t) ==
  IF \A j \in 1..Len(t) : t[j] \in SpaceCh THEN <<>>
  ELSE SubSeq(t, MinOf({j \in 1..Len(t) : t[j] \notin SpaceCh}),
                 MaxOf({j \in 1..Len(t) : t[j] \notin SpaceCh}))

----------------------------------------------------------------------------
(* message_processor.py                                                    *)

remove_all_links(text) ==
  IF text = <<>> THEN text
  ELSE strip(sub_all(url_patterns \o telegram_patterns \o channel_patterns
                       \o <<"spaces", "blank">>, 1, text))

clean_text_formatting(text) ==
  IF text = <<>> THEN text
  ELSE strip(sub_all(<<"emoji", "bang", "quest", "dots", "caps", "spaces">>,
                     1, text))

\* faulty variant: the separator is written before the reference always
add_custom_reference_always_separated(text, reference_text) ==
  text \o <<"\n", "\n">> \o reference_text

add_custom_reference(text, reference_text) ==
  IF text = <<>> THEN reference_text
  ELSE text \o <<"\n", "\n">> \o reference_text

----------------------------------------------------------------------------
(* String literals of the source and of the modelled traffic.              *)

K_start ==
  <<"/","s","t","a","r","t">>

K_stop ==
  <<"/","s","t","o","p">>

K_status ==
  <<"/","s","t","a","t","u","s">>

K_stats ==
  <<"/","s","t","a","t","s">>

K_help ==
  <<"/","h","e","l","p">>

K_config ==
  <<"/","c","o","n","f","i","g">>

K_logs ==
  <<"/","l","o","g","s">>

K_reset_stats ==
  <<"/","r","e","s","e","t","_","s","t","a","t","s">>

K_test ==
  <<"/","t","e","s","t">>

K_update_reference ==
  <<"/","u","p","d","a","t","e","_","r","e","f","e","r","e","n","c","e">>

K_update_channel ==
  <<"/","u","p","d","a","t","e","_","c","h","a","n","n","e","l">>

DefaultReference ==
  <<"EMOJI_B"," ","F","o","r","w","a","r","d","e","d"," ","b","y"," ","B",
    "o","t">>

DefaultChannelLink ==
  <<"h","t","t","p","s",":","/","/","t",".","m","e","/","y","o","u","r","_",
    "c","h","a","n","n","e","l">>

TxtHello ==
  <<"H","e","l","l","o"," ","w","o","r","l","d">>

TxtShort ==
  <<"s","h","o","r","t">>

TxtLinks ==
  <<"@","s","p","a","m","c","h","a","n","n","e","l"," ","h","t","t","p","s",
    ":","/","/","x",".","c","o","/","y">>

TxtExample ==
  <<"C","h","e","c","k"," ","t","h","i","s"," ","h","t","t","p","s",":","/",
    "/","s","p","a","m",".","e","x","a","m","p","l","e","/","x"," ","@","s",
    "p","a","m","u","s","e","r">>

TxtLong ==
  <<"H","e","l","l","o"," ","w","i","d","e"," ","w","o","r","l","d"," ","a",
    "g","a","i","n">>

TxtBlank ==
  <<" "," "," ">>

TxtPadded ==
  <<"s","h","o","r","t"," "," "," "," "," ">>

TxtJoined ==
  <<"l","a","b","e","l","@","_",".","c","o","m">>

TxtJoinedLink ==
  <<"t","@","_",".","m","e","/","x">>

TxtJoinedScheme ==
  <<"h","t","t","p","@","x",":","/","/","a","b","c">>

CmdStart ==
  <<"/","s","t","a","r","t">>

CmdStop ==
  <<"/","s","t","o","p">>

CmdStopUpper ==
  <<"/","S","T","O","P">>

CmdStatus ==
  <<"/","s","t","a","t","u","s">>

CmdLogs ==
  <<"/","l","o","g","s">>

CmdStats ==
  <<"/","s","t","a","t","s">>

CmdHelp ==
  <<"/","h","e","l","p">>

CmdConfig ==
  <<"/","c","o","n","f","i","g">>

CmdResetStats ==
  <<"/","r","e","s","e","t","_","s","t","a","t","s">>

CmdTest ==
  <<"/","t","e","s","t">>

CmdUpdateReference ==
  <<"/","u","p","d","a","t","e","_","r","e","f","e","r","e","n","c","e"," ",
    "N","e","w"," ","r","e","f">>

CmdUpdateReferenceNewline ==
  <<"/","u","p","d","a","t","e","_","r","e","f","e","r","e","n","c","e","\n",
    "N","e","w"," ","r","e","f">>

CmdUpdateReferenceNoArgs ==
  <<"/","u","p","d","a","t","e","_","r","e","f","e","r","e","n","c","e"," ",
    " ">>

CmdUpdateChannel ==
  <<"/","u","p","d","a","t","e","_","c","h","a","n","n","e","l"," ","t",".",
    "m","e","/","n","e","w">>

CmdUpdateChannelNoArgs ==
  <<"/","u","p","d","a","t","e","_","c","h","a","n","n","e","l">>

CmdUnknown ==
  <<"/","f","r","o","b","n","i","c","a","t","e"," ","n","o","w">>

CmdStartSource ==
  <<"/","s","t","a","r","t"," ","r","e","l","a","y","i","n","g"," ","n","o",
    "w">>

----------------------------------------------------------------------------
(* Bounds of the exploration.                                              *)

\* messages delivered by the transport in one run
MaxMsgs == 3

\* update tasks that may be suspended at the same time
MaxInFlight == 2

\* transport or processing failures injected in one run
MaxFaults == 3

\* events that may have arrived when run_until_disconnected ends, and
\* events that may have arrived by the end of an await of the startup
\* notification or of the shutdown
MaxServed == 1

----------------------------------------------------------------------------
(* Program constants.                                                      *)

\* admin.py: last_message_time: datetime = None
NoTime == -1

\* admin.py: len(self.command_history) > 100
MaxCommandHistory == 100

\* admin.py: len(self.error_log) > 50
MaxErrorLog == 50

\* message_processor.py: len(text_without_links.strip()) < 5
MinStrippedLength == 5

\* config.py: MIN_MESSAGE_LENGTH default
DefaultMinMessageLength == 10

\* config.py: MAX_MESSAGE_LENGTH default
DefaultMaxMessageLength == 4000

\* a MAX_MESSAGE_LENGTH an operator may set, short enough to be exceeded
SmallMaxMessageLength == 16

----------------------------------------------------------------------------
(* The events the transport delivers.  sender is the event's sender:       *)
(* "admin" is config.admin_user_id, "self" the account the bot runs as,    *)
(* "anon" a message without from_id, "channel" one whose from_id is a      *)
(* channel peer (no user_id attribute).                                    *)

Msg(chat, sender, sender_bot, text, media) ==
  [chat |-> chat, sender |-> sender, sender_bot |-> sender_bot,
   text |-> text, media |-> media]

AdminMsg(chat, text) == Msg(chat, "admin", FALSE, text, FALSE)

UserMsg(text, media) == Msg("source", "user", FALSE, text, media)

----------------------------------------------------------------------------
(* config.py: the configurations construction produces.                    *)

BotConfig(max_len, forward_media) ==
  [api_id |-> "api", api_hash |-> "hash", phone_number |-> "phone",
   admin_user_id |-> "admin",
   source_group_id |-> "source",
   destination_group_id |-> "destination",
   channel_link |-> DefaultChannelLink,
   reference_text |-> DefaultReference,
   min_message_length |-> DefaultMinMessageLength,
   max_message_length |-> max_len,
   forward_media |-> forward_media]

DefaultConfig == BotConfig(DefaultMaxMessageLength, TRUE)

\* the value of an integer setting that .env gives as 0
ZeroId == "0"

\* BotConfig.__init__ on a .env file that sets these variables
LoadedConfig(api_id, source, destination, min_len, max_len) ==
  [BotConfig(max_len, TRUE) EXCEPT
     !.api_id = api_id, !.source_group_id = source,
     !.destination_group_id = destination, !.min_message_length = min_len]

\* the value of a setting that .env and the environment do not set
Missing == "unset"

\* config.py: _get_int_env without a default, the required variables it
\* finds unset
get_int_env(cfg) ==
  (IF cfg.api_id = Missing THEN {"API_ID"} ELSE {})
    \cup (IF cfg.source_group_id = Missing THEN {"SOURCE_GROUP_ID"} ELSE {})
    \cup (IF cfg.destination_group_id = Missing
            THEN {"DESTINATION_GROUP_ID"} ELSE {})
    \cup (IF cfg.admin_user_id = Missing THEN {"ADMIN_USER_ID"} ELSE {})

\* faulty variant: the validation does not compare the two chat ids
validate_config_without_comparison(cfg) ==
  (IF cfg.api_id = ZeroId THEN {"API_ID"} ELSE {})
    \cup (IF cfg.api_hash = "" THEN {"API_HASH"} ELSE {})
    \cup (IF cfg.phone_number = "" THEN {"PHONE_NUMBER"} ELSE {})
    \cup (IF cfg.source_group_id = ZeroId THEN {"SOURCE_GROUP_ID"} ELSE {})
    \cup (IF cfg.destination_group_id = ZeroId
            THEN {"DESTINATION_GROUP_ID"} ELSE {})
    \cup (IF cfg.admin_user_id = ZeroId THEN {"ADMIN_USER_ID"} ELSE {})

\* config.py: _validate_config, the errors it collects
validate_config(cfg) ==
  (IF cfg.api_id = ZeroId THEN {"API_ID"} ELSE {})
    \cup (IF cfg.api_hash = "" THEN {"API_HASH"} ELSE {})
    \cup (IF cfg.phone_number = "" THEN {"PHONE_NUMBER"} ELSE {})
    \cup (IF cfg.source_group_id = ZeroId THEN {"SOURCE_GROUP_ID"} ELSE {})
    \cup (IF cfg.destination_group_id = ZeroId
            THEN {"DESTINATION_GROUP_ID"} ELSE {})
    \cup (IF cfg.admin_user_id = ZeroId THEN {"ADMIN_USER_ID"} ELSE {})
    \cup (IF cfg.source_group_id = cfg.destination_group_id
            THEN {"SOURCE_GROUP_ID and DESTINATION_GROUP_ID"} ELSE {})

\* BotConfig(): the ValueError it raises, as the set of variables at fault;
\* a required variable that is unset raises before the validation runs
get_config(cfg) ==
  IF get_int_env(cfg) # {} THEN get_int_env(cfg) ELSE validate_config(cfg)

update_reference_text(cfg, new_reference) ==
  [cfg EXCEPT !.reference_text = new_reference]

update_channel_link(cfg, new_link) ==
  [cfg EXCEPT !.channel_link = new_link]

Suite(events, calls, configs) ==
  [events |-> events, calls |-> calls, configs |-> configs]

\* admin commands sent in a private chat with the bot
SuitePrivate ==
  Suite({ AdminMsg("private", CmdStart), AdminMsg("private", CmdStop) },
        {}, {DefaultConfig})

\* admin commands sent in a group, and a source message
SuiteControl ==
  Suite({ AdminMsg("group", CmdStart), AdminMsg("group", CmdStop),
          UserMsg(TxtHello, FALSE) },
        {}, {DefaultConfig})

SuiteReference ==
  Suite({ AdminMsg("group", CmdStart), AdminMsg("group", CmdUpdateReference),
          UserMsg(TxtHello, FALSE), UserMsg(<<>>, TRUE) },
        {}, {DefaultConfig})

SuiteMaintenance ==
  Suite({ AdminMsg("group", CmdStart), AdminMsg("group", CmdResetStats),
          UserMsg(TxtHello, FALSE) },
        {}, {DefaultConfig})

SuiteTest ==
  Suite({ AdminMsg("group", CmdTest), AdminMsg("group", CmdStatus) },
        {}, {DefaultConfig})

SuiteContentText ==
  Suite({ AdminMsg("group", CmdStart), UserMsg(TxtExample, FALSE),
          UserMsg(TxtLinks, FALSE), UserMsg(TxtShort, FALSE),
          UserMsg(<<>>, FALSE) },
        {}, {DefaultConfig})

SuiteContentMedia ==
  Suite({ AdminMsg("group", CmdStart), UserMsg(TxtLong, FALSE),
          UserMsg(<<>>, TRUE), UserMsg(TxtHello, TRUE) },
        {},
        { BotConfig(SmallMaxMessageLength, f) : f \in BOOLEAN })

SuiteSenders ==
  Suite({ AdminMsg("group", CmdStart),
          Msg("source", "self", FALSE, TxtHello, FALSE),
          Msg("source", "user", TRUE, TxtHello, FALSE),
          Msg("source", "channel", FALSE, TxtHello, FALSE) },
        {}, {DefaultConfig})

\* admin commands that are unknown, lack their argument, are in upper case
\* or have a line break after the command word
SuiteCommands ==
  Suite({ AdminMsg("group", CmdUnknown), AdminMsg("group", CmdStopUpper),
          AdminMsg("group", CmdUpdateReferenceNoArgs),
          AdminMsg("group", CmdUpdateReferenceNewline),
          AdminMsg("group", CmdUpdateChannelNoArgs),
          AdminMsg("group", CmdUpdateChannel), AdminMsg("group", CmdLogs) },
        {}, {DefaultConfig})

\* both update commands with their arguments, and a source message
SuiteChannel ==
  Suite({ AdminMsg("group", CmdStart), AdminMsg("group", CmdUpdateChannel),
          AdminMsg("group", CmdUpdateReference), UserMsg(TxtHello, FALSE) },
        {}, {DefaultConfig})

\* the read-only commands, with forwarding switched on and a source message
SuiteReadOnly ==
  Suite({ AdminMsg("group", CmdStart), AdminMsg("group", CmdStatus),
          AdminMsg("group", CmdStats), AdminMsg("group", CmdHelp),
          AdminMsg("group", CmdConfig), AdminMsg("group", CmdLogs),
          UserMsg(TxtHello, FALSE) },
        {}, {DefaultConfig})

\* events handed straight to the dispatcher's entry point by a caller
SuiteDispatcher ==
  Suite({ AdminMsg("group", CmdStart) },
        { Msg("group", "user", FALSE, CmdStop, FALSE),
          Msg("private", "user", FALSE, CmdResetStats, FALSE),
          Msg("group", "user", FALSE, CmdUpdateReference, FALSE) },
        {DefaultConfig})

\* the traffic classes explored; one run draws its events from one class
Suites ==
  [private |-> SuitePrivate, control |-> SuiteControl,
   reference |-> SuiteReference, maintenance |-> SuiteMaintenance,
   test |-> SuiteTest,
   text |-> SuiteContentText, media |-> SuiteContentMedia,
   senders |-> SuiteSenders, dispatcher |-> SuiteDispatcher,
   commands |-> SuiteCommands, channel |-> SuiteChannel,
   readonly |-> SuiteReadOnly]

----------------------------------------------------------------------------
(* The two text transformations are pure; their values on the texts of the *)
(* traffic are tabulated once.                                             *)

TrafficTexts ==
  {m.text : m \in {e \in UNION {Suites[s].events : s \in DOMAIN Suites} :
                     e.chat = "source"}}

\* the texts the text functions are called on directly
SampleTexts ==
  { <<>>, TxtBlank, TxtShort, TxtPadded, TxtLinks, TxtHello, TxtExample,
    TxtLong, TxtJoined, TxtJoinedLink, TxtJoinedScheme }

\* the samples and what remove_all_links returns for them
SanitizerTexts ==
  SampleTexts \cup {remove_all_links(text) : text \in SampleTexts}

links_removed ==
  [text \in TrafficTexts \cup SanitizerTexts |-> remove_all_links(text)]

links_removed_and_cleaned ==
  [text \in TrafficTexts \cup SampleTexts |->
     clean_text_formatting(remove_all_links(text))]

----------------------------------------------------------------------------
(* message_processor.py: the forwarding decision.                          *)

\* faulty variant: the decision without its link-only rule
should_forward_message_keeping_links(message, min_length) ==
  IF message.text = <<>> /\ ~message.media
    THEN <<FALSE, "Empty message">>
  ELSE IF message.text # <<>> /\ Len(strip(message.text)) < min_length
    THEN <<FALSE, "Message too short">>
  ELSE IF message.sender_bot
    THEN <<FALSE, "Message from bot">>
  ELSE <<TRUE, "Message approved for forwarding">>

\* faulty variant: the sender is looked at before the text
should_forward_message_bot_first(message, min_length) ==
  IF message.text = <<>> /\ ~message.media
    THEN <<FALSE, "Empty message">>
  ELSE IF message.sender_bot
    THEN <<FALSE, "Message from bot">>
  ELSE IF message.text # <<>> /\ Len(strip(message.text)) < min_length
    THEN <<FALSE, "Message too short">>
  ELSE IF /\ message.text # <<>>
          /\ Len(strip(links_removed[message.text])) < MinStrippedLength
    THEN <<FALSE, "Message contains only links">>
  ELSE <<TRUE, "Message approved for forwarding">>

should_forward_message(message, min_length) ==
  IF message.text = <<>> /\ ~message.media
    THEN <<FALSE, "Empty message">>
  ELSE IF message.text # <<>> /\ Len(strip(message.text)) < min_length
    THEN <<FALSE, "Message too short">>
  ELSE IF /\ message.text # <<>>
          /\ Len(strip(links_removed[message.text])) < MinStrippedLength
    THEN <<FALSE, "Message contains only links">>
  ELSE IF message.sender_bot
    THEN <<FALSE, "Message from bot">>
  ELSE <<TRUE, "Message approved for forwarding">>

\* Python's s[:k], k negative included
Prefix(s, k) ==
  SubSeq(s, 1, IF k >= 0 THEN MinOf({k, Len(s)}) ELSE MaxOf({Len(s) + k, 0}))

(* main.py: process_message_content.  raises is the environment's choice   *)
(* that a step of the pipeline throws; the except clause then returns "".  *)
process_message_content(message, cfg, processor, raises) ==
  IF raises THEN <<>>
  ELSE LET cleaned == links_removed_and_cleaned[message.text]
           limited == IF Len(cleaned) > cfg.max_message_length
                      THEN Prefix(cleaned, cfg.max_message_length - 3)
                             \o <<".", ".", ".">>
                      ELSE cleaned
       IN  add_custom_reference(limited, processor.reference_text)

\* faulty variant: the button keeps the link the bot was started with
create_channel_button_as_started(cfg) == DefaultChannelLink

create_channel_button(cfg) == cfg.channel_link

----------------------------------------------------------------------------
(* State.                                                                  *)

VARIABLES
  config,             \* the BotConfig singleton
  message_processor,  \* MessageProcessor: holds its own reference_text
  is_forwarding,      \* TelegramForwardBot.is_forwarding
  stats,              \* AdminManager.stats (BotStats)
  command_history,    \* AdminManager.command_history
  error_log,          \* AdminManager.error_log
  tasks,              \* one update task per delivered event, in arrival order
  sends,              \* send_message calls issued to the destination chat
  clock,              \* datetime.now()
  faults,             \* the failures the environment injected, in order
  suite,              \* traffic class of the run
  call,               \* the last direct call of a pure function, if any
  process             \* the run.py process: where it stands, how it ended

\* no pure function has been called directly
NoCall == [op |-> "none"]

vars ==
  <<config, message_processor, is_forwarding, stats, command_history,
    error_log, tasks, sends, clock, faults, suite, call, process>>

\* the process after start() has registered the handlers: it serves events
Listening ==
  [pc |-> "listening", raised |-> "none", exit_code |-> 0, configured |-> TRUE,
   registered |-> TRUE, awaited |-> <<>>]

\* admin.py: BotStats() with __post_init__
BotStats(now) ==
  [messages_forwarded |-> 0, messages_skipped |-> 0, errors_count |-> 0,
   start_time |-> now, last_message_time |-> NoTime, is_active |-> FALSE,
   uptime_seconds |-> 0]

\* main.py: MessageProcessor(self.config.reference_text)
MessageProcessor(reference_text) == [reference_text |-> reference_text]

LastN(s, n) == IF Len(s) > n THEN SubSeq(s, Len(s) - n + 1, Len(s)) ELSE s

(* The mutable objects the handlers work on, as one value.  reply and pc   *)
(* are the registers a command handler leaves its pending reply and its    *)
(* suspension point in.                                                    *)
World ==
  [config |-> config, processor |-> message_processor,
   is_forwarding |-> is_forwarding, stats |-> stats,
   command_history |-> command_history, error_log |-> error_log,
   tasks |-> tasks, sends |-> sends, reply |-> "", pc |-> "reply"]

Install(w) ==
  /\ config' = w.config
  /\ is_forwarding' = w.is_forwarding
  /\ stats' = w.stats
  /\ command_history' = w.command_history
  /\ error_log' = w.error_log
  /\ tasks' = w.tasks
  /\ sends' = w.sends

is_admin(user_id, admin_user_id) == user_id = admin_user_id

\* faulty variant: a full command log drops its newest entry, not its oldest
log_command_evicting_newest(b, now, command, args, user_id) ==
  [b EXCEPT !.command_history =
     (IF Len(@) >= MaxCommandHistory
        THEN SubSeq(@, 1, MaxCommandHistory - 1) ELSE @)
       \o <<[timestamp |-> now, command |-> command,
             args |-> args, user_id |-> user_id]>>]

log_command(b, now, command, args, user_id) ==
  [b EXCEPT !.command_history =
     LastN(Append(@, [timestamp |-> now, command |-> command,
                      args |-> args, user_id |-> user_id]),
           MaxCommandHistory)]

\* faulty variant: an error is logged without being counted
log_error_uncounted(b, now, error_type, error_message) ==
  [b EXCEPT !.error_log =
              LastN(Append(@, [timestamp |-> now, type |-> error_type,
                               message |-> error_message]),
                    MaxErrorLog)]

log_error(b, now, error_type, error_message) ==
  [b EXCEPT !.error_log =
              LastN(Append(@, [timestamp |-> now, type |-> error_type,
                               message |-> error_message]),
                    MaxErrorLog),
            !.stats.errors_count = @ + 1]

\* faulty variant: a forwarded message is counted as skipped too
update_stats_counting_both(b, now, action) ==
  LET counted ==
        IF action = "message_forwarded"
          THEN [b EXCEPT !.stats.messages_forwarded = @ + 1,
                         !.stats.messages_skipped = @ + 1,
                         !.stats.last_message_time = now]
        ELSE IF action = "message_skipped"
          THEN [b EXCEPT !.stats.messages_skipped = @ + 1]
        ELSE b
  IN  [counted EXCEPT !.stats.uptime_seconds = now - counted.stats.start_time]

update_stats(b, now, action) ==
  LET counted ==
        IF action = "message_forwarded"
          THEN [b EXCEPT !.stats.messages_forwarded = @ + 1,
                         !.stats.last_message_time = now]
        ELSE IF action = "message_skipped"
          THEN [b EXCEPT !.stats.messages_skipped = @ + 1]
        ELSE b
  IN  [counted EXCEPT !.stats.uptime_seconds = now - counted.stats.start_time]

----------------------------------------------------------------------------
(* admin.py: the command handlers, each up to its first await.  A handler  *)
(* leaves in b.reply the reply it is about to send and in b.pc the await   *)
(* it suspends at.                                                         *)

cmd_start_forwarding(b, now, args) ==
  [b EXCEPT !.is_forwarding = TRUE, !.stats.is_active = TRUE,
            !.reply = "started"]

cmd_stop_forwarding(b, now, args) ==
  [b EXCEPT !.is_forwarding = FALSE, !.stats.is_active = FALSE,
            !.reply = "stopped"]

cmd_get_status(b, now, args) ==
  [b EXCEPT !.reply = IF b.stats.is_active THEN "status ACTIVE"
                      ELSE "status INACTIVE"]

\* faulty variant: asking for the statistics counts as a skipped message
cmd_get_detailed_stats_counting(b, now, args) ==
  [update_stats(b, now, "message_skipped") EXCEPT !.reply = "stats"]

cmd_get_detailed_stats(b, now, args) == [b EXCEPT !.reply = "stats"]

cmd_get_help(b, now, args) == [b EXCEPT !.reply = "help"]

cmd_get_config(b, now, args) == [b EXCEPT !.reply = "config"]

cmd_get_logs(b, now, args) ==
  [b EXCEPT !.reply = IF b.error_log = <<>> THEN "no errors" ELSE "logs"]

\* faulty variant: the reset also switches forwarding off
cmd_reset_stats_and_flag(b, now, args) ==
  [b EXCEPT !.stats = BotStats(now), !.command_history = <<>>,
            !.error_log = <<>>, !.is_forwarding = FALSE,
            !.reply = "stats reset"]

\* faulty variant: the reset leaves the error log as it is
cmd_reset_stats_keeping_errors(b, now, args) ==
  [b EXCEPT !.stats = BotStats(now), !.command_history = <<>>,
            !.reply = "stats reset"]

cmd_reset_stats(b, now, args) ==
  [b EXCEPT !.stats = BotStats(now), !.command_history = <<>>,
            !.error_log = <<>>, !.reply = "stats reset"]

cmd_test_connection(b, now, args) == [b EXCEPT !.pc = "test_me"]

\* faulty variant: an empty argument is installed as the reference text
cmd_update_reference_accepting_empty(b, now, args) ==
  [b EXCEPT !.config = update_reference_text(@, args),
            !.reply = "reference updated"]

cmd_update_reference(b, now, args) ==
  IF args = <<>> THEN [b EXCEPT !.reply = "usage update_reference"]
  ELSE [b EXCEPT !.config = update_reference_text(@, args),
                 !.reply = "reference updated"]

\* faulty variant: the new link is stored with the setter of the reference
cmd_update_channel_as_reference(b, now, args) ==
  IF args = <<>> THEN [b EXCEPT !.reply = "usage update_channel"]
  ELSE [b EXCEPT !.config = update_reference_text(@, args),
                 !.reply = "channel updated"]

cmd_update_channel(b, now, args) ==
  IF args = <<>> THEN [b EXCEPT !.reply = "usage update_channel"]
  ELSE [b EXCEPT !.config = update_channel_link(@, args),
                 !.reply = "channel updated"]

\* faulty variant: an unknown command is logged as an error
cmd_unknown_command_as_error(b, now, command) ==
  [log_error(b, now, "Command execution error", "unknown")
     EXCEPT !.reply = "unknown command"]

cmd_unknown_command(b, now, command) == [b EXCEPT !.reply = "unknown command"]

\* faulty variant: the command word is not folded to lower case
ParseCommand_keeping_case(text) ==
  LET message_text == strip(text)
      blanks == {j \in 1..Len(message_text) : message_text[j] = " "}
      cut == IF blanks = {} THEN Len(message_text) + 1 ELSE MinOf(blanks)
  IN  [command |-> SubSeq(message_text, 1, cut - 1),
       args |-> SubSeq(message_text, cut + 1, Len(message_text))]

\* message_text.split(' ', 1): command_parts[0].lower() and the remainder
ParseCommand(text) ==
  LET message_text == strip(text)
      blanks == {j \in 1..Len(message_text) : message_text[j] = " "}
      cut == IF blanks = {} THEN Len(message_text) + 1 ELSE MinOf(blanks)
  IN  [command |-> lower_str(SubSeq(message_text, 1, cut - 1)),
       args |-> SubSeq(message_text, cut + 1, Len(message_text))]

\* self.commands[command](event, args), else cmd_unknown_command
commands(b, now, command, args) ==
  CASE command = K_start            -> cmd_start_forwarding(b, now, args)
    [] command = K_stop             -> cmd_stop_forwarding(b, now, args)
    [] command = K_status           -> cmd_get_status(b, now, args)
    [] command = K_stats            -> cmd_get_detailed_stats(b, now, args)
    [] command = K_help             -> cmd_get_help(b, now, args)
    [] command = K_config           -> cmd_get_config(b, now, args)
    [] command = K_logs             -> cmd_get_logs(b, now, args)
    [] command = K_reset_stats      -> cmd_reset_stats(b, now, args)
    [] command = K_test             -> cmd_test_connection(b, now, args)
    [] command = K_update_reference -> cmd_update_reference(b, now, args)
    [] command = K_update_channel   -> cmd_update_channel(b, now, args)
    [] OTHER                        -> cmd_unknown_command(b, now, command)

----------------------------------------------------------------------------
(* main.py: register_handlers.  The transport runs, for each event, the    *)
(* handlers whose filter matches, in registration order, inside one task;  *)
(* a task runs without interruption from one await to the next, and tasks  *)
(* of different events interleave at their awaits.                         *)

HandlerOrder == <<"source", "admin", "public">>

\* the filters of events.NewMessage(chats=..), (from_users=..), (pattern=..)
Matches(handler, message, cfg) ==
  CASE handler = "source" -> message.chat = cfg.source_group_id
    [] handler = "admin"  -> message.sender = cfg.admin_user_id
    [] handler = "public" -> /\ Len(message.text) >= 2
                             /\ message.text[1] = "/"
                             /\ message.text[2] \in WordCh

HandlerIndex(handler) ==
  CASE handler = "source" -> 1
    [] handler = "admin"  -> 2
    [] handler = "public" -> 3
    [] OTHER              -> 4

NextHandler(message, k, cfg) ==
  LET later == {j \in (k + 1)..3 : Matches(HandlerOrder[j], message, cfg)}
  IN  IF later = {} THEN "done" ELSE HandlerOrder[MinOf(later)]

NewTask(message, handler) ==
  [msg |-> message, handler |-> handler, pc |-> "start", pending |-> "",
   replies |-> <<>>, results |-> <<>>]

\* the task of event t leaves its current handler for the next matching one
Finish(w, t) ==
  [w EXCEPT !.tasks[t].handler =
              NextHandler(w.tasks[t].msg, HandlerIndex(@), w.config),
            !.tasks[t].pc = "start", !.tasks[t].pending = ""]

\* the current handler of task t returned
Returned(w, t) == [w EXCEPT !.tasks[t].pc = "return"]

\* admin.py: handle_admin_command up to its first await
handle_admin_command(w, t, now) ==
  LET message == w.tasks[t].msg
      parts == ParseCommand(message.text)
      b == IF ~is_admin(message.sender, w.config.admin_user_id)
             THEN [w EXCEPT !.reply = "unauthorized", !.pc = "reply"]
           ELSE commands(log_command([w EXCEPT !.reply = "", !.pc = "reply"],
                                     now, parts.command, parts.args,
                                     message.sender),
                         now, parts.command, parts.args)
  IN  [b EXCEPT !.tasks[t].pc = b.pc, !.tasks[t].pending = b.reply]

\* faulty variant: the source handler without its is_forwarding test
handle_source_message_unguarded(w, t, now) ==
  [w EXCEPT !.tasks[t].pc = "get_me"]

\* main.py: handle_source_message
handle_source_message(w, t, now) ==
  IF w.is_forwarding THEN [w EXCEPT !.tasks[t].pc = "get_me"]
  ELSE Returned(w, t)

\* main.py: handle_public_command
handle_public_command(w, t, now) ==
  IF /\ w.tasks[t].msg.chat = "private"
     /\ w.tasks[t].msg.sender = w.config.admin_user_id
    THEN handle_admin_command(w, t, now)
  ELSE Returned(w, t)

\* the transport's dispatch loop: run the handlers of task t until one awaits
RECURSIVE run_handlers(_, _, _)
run_handlers(w, t, now) ==
  LET handler == w.tasks[t].handler
      w1 == CASE handler = "source" -> handle_source_message(w, t, now)
              [] handler = "public" -> handle_public_command(w, t, now)
              [] OTHER              -> handle_admin_command(w, t, now)
  IN  IF handler = "done" THEN w
      ELSE IF w1.tasks[t].pc = "return"
        THEN run_handlers(Finish(w1, t), t, now)
      ELSE w1

\* a handler of task t returned or raised: the task goes on to the next one
Resume(w, t, now) == run_handlers(Finish(w, t), t, now)

\* faulty variant: the messages of the bot itself are processed like any other
process_and_forward_message_relaying_self(w, t, now, raises) ==
  LET original_message == w.tasks[t].msg
      verdict == should_forward_message(original_message,
                                        w.config.min_message_length)
      processed_text == process_message_content(original_message, w.config,
                                                w.processor, raises)
  IN  IF original_message.sender = "channel"
        THEN Returned(log_error(w, now, "Message processing error",
                                "AttributeError"), t)
      ELSE IF ~verdict[1]
        THEN Returned(update_stats(w, now, "message_skipped"), t)
      ELSE IF processed_text = <<>>
        THEN Returned(update_stats(w, now, "message_skipped"), t)
      ELSE [w EXCEPT
              !.sends = Append(@,
                 [task |-> t, text |-> processed_text,
                  file |-> original_message.media /\ w.config.forward_media,
                  buttons |-> create_channel_button(w.config),
                  status |-> "pending"]),
              !.tasks[t].pc = "send"]

\* faulty variant: media is attached whatever forward_media says
process_and_forward_message_always_media(w, t, now, raises) ==
  LET original_message == w.tasks[t].msg
      verdict == should_forward_message(original_message,
                                        w.config.min_message_length)
      processed_text == process_message_content(original_message, w.config,
                                                w.processor, raises)
  IN  IF original_message.sender = "channel"
        THEN Returned(log_error(w, now, "Message processing error",
                                "AttributeError"), t)
      ELSE IF original_message.sender = "self"
        THEN Returned(w, t)
      ELSE IF ~verdict[1]
        THEN Returned(update_stats(w, now, "message_skipped"), t)
      ELSE IF processed_text = <<>>
        THEN Returned(update_stats(w, now, "message_skipped"), t)
      ELSE [w EXCEPT
              !.sends = Append(@,
                 [task |-> t, text |-> processed_text,
                  file |-> original_message.media,
                  buttons |-> create_channel_button(w.config),
                  status |-> "pending"]),
              !.tasks[t].pc = "send"]

\* main.py: process_and_forward_message, from the return of get_me to the
\* send (or to the return)
process_and_forward_message(w, t, now, raises) ==
  LET original_message == w.tasks[t].msg
      verdict == should_forward_message(original_message,
                                        w.config.min_message_length)
      processed_text == process_message_content(original_message, w.config,
                                                w.processor, raises)
  IN  IF original_message.sender = "channel"
        THEN Returned(log_error(w, now, "Message processing error",
                                "AttributeError"), t)
      ELSE IF original_message.sender = "self"
        THEN Returned(w, t)
      ELSE IF ~verdict[1]
        THEN Returned(update_stats(w, now, "message_skipped"), t)
      ELSE IF processed_text = <<>>
        THEN Returned(update_stats(w, now, "message_skipped"), t)
      ELSE [w EXCEPT
              !.sends = Append(@,
                 [task |-> t, text |-> processed_text,
                  file |-> original_message.media /\ w.config.forward_media,
                  buttons |-> create_channel_button(w.config),
                  status |-> "pending"]),
              !.tasks[t].pc = "send"]

SendIndex(w, t) ==
  CHOOSE k \in 1..Len(w.sends) :
    w.sends[k].task = t /\ w.sends[k].status = "pending"

\* process_and_forward_message after send_message returned
send_returned(w, t, now) ==
  Returned(update_stats([w EXCEPT !.sends[SendIndex(w, t)].status = "sent"],
                        now, "message_forwarded"), t)

\* faulty variant: a failed send is counted as a skipped message as well
send_raised_counting_skip(w, t, now) ==
  Returned(update_stats(
             log_error([w EXCEPT !.sends[SendIndex(w, t)].status = "failed"],
                       now, "Message processing error", "send_message"),
             now, "message_skipped"), t)

\* process_and_forward_message: its except clause, after send_message raised
send_raised(w, t, now) ==
  Returned(log_error([w EXCEPT !.sends[SendIndex(w, t)].status = "failed"],
                     now, "Message processing error", "send_message"), t)

\* process_and_forward_message: its except clause, after get_me raised
get_me_raised(w, t, now) ==
  Returned(log_error(w, now, "Message processing error", "get_me"), t)

\* handle_admin_command after the reply of its try block returned
reply_returned(w, t) ==
  Returned([w EXCEPT !.tasks[t].replies = Append(@, w.tasks[t].pending)], t)

\* handle_admin_command: its except clause replies before it logs
reply_raised(w, t) ==
  [w EXCEPT !.tasks[t].pc = "error_reply", !.tasks[t].pending = "error"]

\* handle_admin_command: the reply of the except clause returned
error_reply_returned(w, t, now) ==
  Returned(log_error(
             [w EXCEPT !.tasks[t].replies = Append(@, w.tasks[t].pending)],
             now, "Command execution error", "reply"), t)

\* faulty variant: the awaits of the checks are not guarded, so a failing
\* check leaves the handler for the except clause of the dispatcher
test_check_done_unguarded(w, t, ok) ==
  IF ~ok THEN reply_raised(w, t)
  ELSE [w EXCEPT
          !.tasks[t].results = Append(@, ok),
          !.tasks[t].pc = CASE @ = "test_me"     -> "test_source"
                            [] @ = "test_source" -> "test_dest"
                            [] @ = "test_dest"   -> "reply",
          !.tasks[t].pending = IF w.tasks[t].pc = "test_dest"
                                 THEN "test results" ELSE @]

\* cmd_test_connection: one of its three guarded awaits completed
test_check_done(w, t, ok) ==
  [w EXCEPT
     !.tasks[t].results = Append(@, ok),
     !.tasks[t].pc = CASE @ = "test_me"     -> "test_source"
                       [] @ = "test_source" -> "test_dest"
                       [] @ = "test_dest"   -> "reply",
     !.tasks[t].pending = IF w.tasks[t].pc = "test_dest" THEN "test results"
                          ELSE @]

----------------------------------------------------------------------------
(* The transition system.                                                  *)

InFlight == Cardinality({t \in 1..Len(tasks) : tasks[t].handler # "done"})

\* a failure of the await `at` of task t
Fault(t, at) == [task |-> t, at |-> at]

\* the environment may inject one more failure
MayFail == Len(faults) < MaxFaults

\* suites whose sender waits for the bot to finish before the next message
PacedSuites == {"private", "test", "text", "media", "commands"}

\* the transport may start the task of one more event
MayDeliver ==
  /\ process.registered
  /\ \/ process.pc = "listening"
     \/ process.pc \in {"notify", "shutdown"} /\ Len(tasks) < MaxServed
  /\ Len(tasks) < MaxMsgs
  /\ InFlight < (IF suite \in PacedSuites THEN 1 ELSE MaxInFlight)

At(t, handlers, pc) ==
  /\ t \in 1..Len(tasks)
  /\ tasks[t].handler \in handlers
  /\ tasks[t].pc = pc

Dispatchers == {"admin", "public", "direct"}

\* continue task t from world w: if its handler returned, run the next ones
Continue(w, t) ==
  \E w1 \in {w} :
    \E w2 \in {IF w1.tasks[t].pc = "return" THEN Resume(w1, t, clock)
                ELSE w1} :
      Install(w2)

Init ==
  /\ suite \in DOMAIN Suites
  /\ config \in Suites[suite].configs
  /\ message_processor = MessageProcessor(config.reference_text)
  /\ is_forwarding = FALSE
  /\ stats = BotStats(0)
  /\ command_history = <<>>
  /\ error_log = <<>>
  /\ tasks = <<>>
  /\ sends = <<>>
  /\ clock = 0
  /\ faults = <<>>
  /\ call = NoCall
  /\ process = Listening

\* the transport receives an event and runs its handlers up to the first await
Deliver(m) ==
  /\ MayDeliver
  /\ \E w \in {run_handlers(
               [World EXCEPT
                  !.tasks = Append(@, NewTask(m, NextHandler(m, 0, config)))],
               Len(tasks) + 1, clock + 1)} :
       Install(w)
  /\ clock' = clock + 1
  /\ UNCHANGED <<message_processor, faults, suite, call, process>>

\* get_me returns to process_and_forward_message
GetMeReturns(t) ==
  /\ At(t, {"source"}, "get_me")
  /\ Continue(process_and_forward_message(World, t, clock, FALSE), t)
  /\ UNCHANGED <<message_processor, clock, faults, suite, call, process>>

\* get_me returns and a step of process_message_content raises
ContentRaises(t) ==
  /\ At(t, {"source"}, "get_me")
  /\ tasks[t].msg.sender \notin {"channel", "self"}
  /\ should_forward_message(tasks[t].msg, config.min_message_length)[1]
  /\ MayFail
  /\ faults' = Append(faults, Fault(t, "content"))
  /\ Continue(process_and_forward_message(World, t, clock, TRUE), t)
  /\ UNCHANGED <<message_processor, clock, suite, call, process>>

GetMeFails(t) ==
  /\ At(t, {"source"}, "get_me")
  /\ MayFail
  /\ faults' = Append(faults, Fault(t, "get_me"))
  /\ Continue(get_me_raised(World, t, clock), t)
  /\ UNCHANGED <<message_processor, clock, suite, call, process>>

SendSucceeds(t) ==
  /\ At(t, {"source"}, "send")
  /\ Continue(send_returned(World, t, clock), t)
  /\ UNCHANGED <<message_processor, clock, faults, suite, call, process>>

SendFails(t) ==
  /\ At(t, {"source"}, "send")
  /\ MayFail
  /\ faults' = Append(faults, Fault(t, "send"))
  /\ Continue(send_raised(World, t, clock), t)
  /\ UNCHANGED <<message_processor, clock, suite, call, process>>

TestCheck(t, ok) ==
  /\ \/ At(t, Dispatchers, "test_me")
     \/ At(t, Dispatchers, "test_source")
     \/ At(t, Dispatchers, "test_dest")
  /\ ~ok => MayFail
  /\ faults' = IF ok THEN faults ELSE Append(faults, Fault(t, tasks[t].pc))
  /\ Continue(test_check_done(World, t, ok), t)
  /\ UNCHANGED <<message_processor, clock, suite, call, process>>

ReplySucceeds(t) ==
  /\ At(t, Dispatchers, "reply")
  /\ Continue(reply_returned(World, t), t)
  /\ UNCHANGED <<message_processor, clock, faults, suite, call, process>>

ReplyFails(t) ==
  /\ At(t, Dispatchers, "reply")
  /\ MayFail
  /\ faults' = Append(faults, Fault(t, "reply"))
  /\ Continue(reply_raised(World, t), t)
  /\ UNCHANGED <<message_processor, clock, suite, call, process>>

ErrorReplySucceeds(t) ==
  /\ At(t, Dispatchers, "error_reply")
  /\ Continue(error_reply_returned(World, t, clock), t)
  /\ UNCHANGED <<message_processor, clock, faults, suite, call, process>>

\* the reply of the except clause raises too: the exception leaves the handler
ErrorReplyFails(t) ==
  /\ At(t, Dispatchers, "error_reply")
  /\ MayFail
  /\ faults' = Append(faults, Fault(t, "error_reply"))
  /\ Continue(Returned(World, t), t)
  /\ UNCHANGED <<message_processor, clock, suite, call, process>>

\* a caller invokes AdminManager.handle_admin_command on an event of its own
DirectDispatch(m) ==
  /\ MayDeliver
  /\ \E w \in {run_handlers(
               [World EXCEPT !.tasks = Append(@, NewTask(m, "direct"))],
               Len(tasks) + 1, clock + 1)} :
       Install(w)
  /\ clock' = clock + 1
  /\ UNCHANGED <<message_processor, faults, suite, call, process>>

TaskIds == 1..MaxMsgs

Next ==
  \/ \E m \in Suites[suite].events : Deliver(m)
  \/ \E t \in TaskIds : GetMeReturns(t)
  \/ \E t \in TaskIds : ContentRaises(t)
  \/ \E t \in TaskIds : GetMeFails(t)
  \/ \E t \in TaskIds : SendSucceeds(t)
  \/ \E t \in TaskIds : SendFails(t)
  \/ \E t \in TaskIds : \E ok \in BOOLEAN : TestCheck(t, ok)
  \/ \E t \in TaskIds : ReplySucceeds(t)
  \/ \E t \in TaskIds : ReplyFails(t)
  \/ \E t \in TaskIds : ErrorReplySucceeds(t)
  \/ \E t \in TaskIds : ErrorReplyFails(t)

Spec == Init /\ [][Next]_vars

\* the dispatcher with its entry point open to any caller
NextDispatcher ==
  \/ Next
  \/ \E m \in Suites[suite].calls : DirectDispatch(m)

SpecDispatcher == Init /\ [][NextDispatcher]_vars

----------------------------------------------------------------------------
(* The bot after a long run: its two logs are full, or one entry short of  *)
(* full.  Entry k of a log of n entries was written at time k - n.         *)

LongRunCommands(n) ==
  [k \in 1..n |-> [timestamp |-> k - n, command |-> K_status,
                   args |-> <<>>, user_id |-> "admin"]]

LongRunErrors(n) ==
  [k \in 1..n |-> [timestamp |-> k - n, type |-> "Message processing error",
                   message |-> "send_message"]]

InitLogs ==
  /\ suite \in {"maintenance", "test"}
  /\ config \in Suites[suite].configs
  /\ message_processor = MessageProcessor(config.reference_text)
  /\ is_forwarding = FALSE
  /\ \E short \in {0, 1} :
       /\ command_history = LongRunCommands(MaxCommandHistory - short)
       /\ error_log = LongRunErrors(MaxErrorLog - short)
       /\ stats = [BotStats(0) EXCEPT !.errors_count = MaxErrorLog - short]
  /\ tasks = <<>>
  /\ sends = <<>>
  /\ clock = 0
  /\ faults = <<>>
  /\ call = NoCall
  /\ process = Listening

SpecLogs == InitLogs /\ [][Next]_vars

----------------------------------------------------------------------------
(* run.py and main.py: the process from its start.  run.py awaits main()   *)
(* of main.py, which constructs the bot (the configuration is loaded and   *)
(* validated there) and awaits start(); start() awaits client.start,       *)
(* get_me and the two get_entity calls of verify_group_access, registers   *)
(* the handlers, sends the startup notification and then serves events.    *)

\* .env files an operator may write
SampleConfigs ==
  { DefaultConfig,
    LoadedConfig("api", "source", "destination", -1, DefaultMaxMessageLength),
    LoadedConfig("api", "source", "destination", DefaultMinMessageLength,
                 5),
    LoadedConfig("api", "source", "destination", 1, 2),
    LoadedConfig("api", "source", "source", DefaultMinMessageLength,
                 DefaultMaxMessageLength),
    LoadedConfig("api", ZeroId, "destination", DefaultMinMessageLength,
                 DefaultMaxMessageLength),
    LoadedConfig(ZeroId, "source", "destination", DefaultMinMessageLength,
                 DefaultMaxMessageLength),
    LoadedConfig(Missing, "source", "destination", DefaultMinMessageLength,
                 DefaultMaxMessageLength),
    LoadedConfig("api", Missing, "destination", DefaultMinMessageLength,
                 DefaultMaxMessageLength),
    LoadedConfig("api", "source", ZeroId, DefaultMinMessageLength,
                 DefaultMaxMessageLength),
    LoadedConfig("api", "source", Missing, DefaultMinMessageLength,
                 DefaultMaxMessageLength),
    LoadedConfig("api", Missing, Missing, DefaultMinMessageLength,
                 DefaultMaxMessageLength),
    [DefaultConfig EXCEPT !.admin_user_id = ZeroId],
    [DefaultConfig EXCEPT !.admin_user_id = Missing] }

\* main.py main(): what leaves it when `raised` reaches its except clauses
bot_main(raised) ==
  IF raised \in {"KeyboardInterrupt", "Exception"} THEN "none" ELSE raised

\* run.py main(): sys.exit(1) in its except Exception clause, else it returns
run_main(raised) == IF bot_main(raised) = "Exception" THEN 1 ELSE 0

\* the awaits of start() that its except clause guards, in order
StartAwaits == <<"client.start", "get_me", "get_entity source",
                 "get_entity destination", "notify">>

AfterAwait(pc) ==
  StartAwaits[1 + CHOOSE k \in 1..Len(StartAwaits) : StartAwaits[k] = pc]

\* the process when run.py calls main(): no bot, no client, no handlers
Starting ==
  [pc |-> "construct", raised |-> "none", exit_code |-> 0,
   configured |-> FALSE, registered |-> FALSE, awaited |-> <<>>]

\* an await of the process finished: it returned (ok) or raised
Awaited(p, at, ok) == [p EXCEPT !.awaited = Append(@, [at |-> at, ok |-> ok])]

\* main.py: register_handlers
register_handlers(p) == [p EXCEPT !.registered = TRUE]

\* faulty variant: the handlers are registered as soon as the client is
\* connected, before the chats are resolved
start_returned_registering_early(p, at) ==
  LET q == [Awaited(p, at, TRUE) EXCEPT !.pc = AfterAwait(at)]
  IN  IF at = "client.start" THEN register_handlers(q) ELSE q

\* start(): the await `at` returned; after verify_group_access, that is
\* after the destination is resolved, register_handlers runs before the
\* next await
start_returned(p, at) ==
  LET q == [Awaited(p, at, TRUE) EXCEPT !.pc = AfterAwait(at)]
  IN  IF at = "get_entity destination" THEN register_handlers(q) ELSE q

\* start(): the await `at` raised; its except clause re-raises to main(),
\* whose except clause logs and whose finally clause awaits bot.shutdown()
start_raised(p, at, raised) ==
  [Awaited(p, at, FALSE) EXCEPT !.pc = "shutdown", !.raised = raised]

\* start(): run_until_disconnected returned, or raised `raised`; either way
\* main() goes on to its finally clause, which awaits bot.shutdown()
run_ended(p, raised) ==
  [Awaited(p, "run_until_disconnected", raised = "none")
     EXCEPT !.pc = "shutdown", !.raised = raised]

\* faulty variant: the notification is sent outside the inner try, so its
\* failure reaches the except clause of shutdown() and skips the disconnect
notice_done_unguarded(p, ok) ==
  IF ok THEN [Awaited(p, "notice", ok) EXCEPT !.pc = "disconnect"]
  ELSE [Awaited(p, "notice", ok) EXCEPT !.pc = "exited",
                                         !.exit_code = run_main(p.raised)]

\* shutdown(): the send of the notification returned or raised; the bare
\* except passes, and the disconnect is awaited next
notice_done(p, ok) == [Awaited(p, "notice", ok) EXCEPT !.pc = "disconnect"]

\* shutdown(): client.disconnect() returned or raised; the except clause of
\* shutdown() only logs, main() returns and run.py decides the exit status
disconnect_done(p, ok) ==
  [Awaited(p, "disconnect", ok) EXCEPT !.pc = "exited",
                                        !.exit_code = run_main(p.raised)]

InitStartup ==
  /\ suite \in {"control", "test"}
  /\ config \in SampleConfigs
  /\ message_processor = MessageProcessor(config.reference_text)
  /\ is_forwarding = FALSE
  /\ stats = BotStats(0)
  /\ command_history = <<>>
  /\ error_log = <<>>
  /\ tasks = <<>>
  /\ sends = <<>>
  /\ clock = 0
  /\ faults = <<>>
  /\ call = NoCall
  /\ process = Starting

\* TelegramForwardBot(): get_config() installs the configuration, or it
\* raises ValueError and installs none; main() has no bot to shut down then
Construct ==
  /\ process.pc = "construct"
  /\ process' = IF get_config(config) = {}
                  THEN [process EXCEPT !.pc = StartAwaits[1],
                                       !.configured = TRUE]
                ELSE [process EXCEPT !.pc = "exited", !.raised = "Exception",
                                     !.exit_code = run_main("Exception")]
  /\ UNCHANGED <<config, message_processor, is_forwarding, stats,
                 command_history, error_log, tasks, sends, clock, faults,
                 suite, call>>

\* one of the four awaits of start() and verify_group_access completes; when
\* it raises, the except clause of start() logs a startup error and re-raises
StartAwait(ok) ==
  /\ process.pc \in {StartAwaits[k] : k \in 1..4}
  /\ ~ok => MayFail
  /\ IF ok
       THEN /\ process' = start_returned(process, process.pc)
            /\ UNCHANGED <<stats, error_log, faults>>
     ELSE /\ faults' = Append(faults, Fault(0, process.pc))
          /\ \E w \in {log_error(World, clock, "Startup error", process.pc)} :
               /\ stats' = w.stats
               /\ error_log' = w.error_log
          /\ process' = start_raised(process, process.pc, "Exception")
  /\ UNCHANGED <<config, message_processor, is_forwarding, command_history,
                 tasks, sends, clock, suite, call>>

\* send_startup_notification: its own except clause only logs a failure
Notify(ok) ==
  /\ process.pc = "notify"
  /\ ~ok => MayFail
  /\ faults' = IF ok THEN faults ELSE Append(faults, Fault(0, "notify"))
  /\ process' = [Awaited(process, "notify", ok) EXCEPT !.pc = "listening"]
  /\ UNCHANGED <<config, message_processor, is_forwarding, stats,
                 command_history, error_log, tasks, sends, clock, suite, call>>

\* client.run_until_disconnected() ends: it returns, or it raises an
\* exception (logged by the except clause of start()) or KeyboardInterrupt
Stop(raised) ==
  /\ process.pc = "listening"
  /\ Len(tasks) <= MaxServed
  /\ raised = "Exception" => MayFail
  /\ IF raised = "Exception"
       THEN /\ faults' = Append(faults, Fault(0, "run_until_disconnected"))
            /\ \E w \in {log_error(World, clock, "Startup error",
                                    "run_until_disconnected")} :
                 /\ stats' = w.stats
                 /\ error_log' = w.error_log
     ELSE UNCHANGED <<stats, error_log, faults>>
  /\ process' = run_ended(process, raised)
  /\ UNCHANGED <<config, message_processor, is_forwarding, command_history,
                 tasks, sends, clock, suite, call>>

\* shutdown(): the notification to the admin is sent, or its send raises
ShutdownNotice(ok) ==
  /\ process.pc = "shutdown"
  /\ ~ok => MayFail
  /\ faults' = IF ok THEN faults ELSE Append(faults, Fault(0, "notice"))
  /\ process' = notice_done(process, ok)
  /\ UNCHANGED <<config, message_processor, is_forwarding, stats,
                 command_history, error_log, tasks, sends, clock, suite, call>>

\* shutdown(): the client disconnects, or the disconnect raises; then
\* main() returns to run.py
Disconnect(ok) ==
  /\ process.pc = "disconnect"
  /\ ~ok => MayFail
  /\ faults' = IF ok THEN faults ELSE Append(faults, Fault(0, "disconnect"))
  /\ process' = disconnect_done(process, ok)
  /\ UNCHANGED <<config, message_processor, is_forwarding, stats,
                 command_history, error_log, tasks, sends, clock, suite, call>>

\* the tasks of the events run while the client is connected: once
\* shutdown() awaits the disconnect, no call of a task returns any more
Serve == process.pc \notin {"disconnect", "exited"} /\ Next

NextStartup ==
  \/ Construct
  \/ \E ok \in BOOLEAN : StartAwait(ok)
  \/ \E ok \in BOOLEAN : Notify(ok)
  \/ \E raised \in {"none", "Exception", "KeyboardInterrupt"} : Stop(raised)
  \/ \E ok \in BOOLEAN : ShutdownNotice(ok)
  \/ \E ok \in BOOLEAN : Disconnect(ok)
  \/ Serve

SpecStartup == InitStartup /\ [][NextStartup]_vars

----------------------------------------------------------------------------
(* The pure functions of message_processor.py and main.py, called directly *)
(* on sample inputs; the bot itself stays as constructed.                  *)

SampleMessages ==
  { Msg("source", "user", sender_bot, text, media) :
      sender_bot \in BOOLEAN, text \in SampleTexts, media \in BOOLEAN }

\* values of MIN_MESSAGE_LENGTH
SampleMinLengths == {0, 5, DefaultMinMessageLength, 11}

BotUnchanged ==
  UNCHANGED <<config, message_processor, is_forwarding, stats,
              command_history, error_log, tasks, sends, clock, faults, suite,
              process>>

\* message_processor.should_forward_message(message, min_length)
Evaluate(message, min_length) ==
  /\ call' = [op |-> "should_forward_message", message |-> message,
              min_length |-> min_length,
              result |-> should_forward_message(message, min_length)]
  /\ BotUnchanged

\* values of REFERENCE_TEXT
SampleReferences == {DefaultReference, TxtShort, <<>>}

\* message_processor.add_custom_reference(text) of a processor holding
\* reference_text
Compose(text, reference_text) ==
  /\ call' = [op |-> "add_custom_reference", text |-> text,
              reference_text |-> reference_text,
              result |-> add_custom_reference(text, reference_text)]
  /\ BotUnchanged

\* values of MAX_MESSAGE_LENGTH
SampleMaxLengths == {2, 3, 10, 11, 21, 22, DefaultMaxMessageLength}

\* process_message_content(message) of a bot configured with max_len
ProcessContent(message, max_len) ==
  /\ call' = [op |-> "process_message_content", message |-> message,
              max_message_length |-> max_len,
              reference_text |-> DefaultReference,
              result |-> process_message_content(
                           message, BotConfig(max_len, TRUE),
                           MessageProcessor(DefaultReference), FALSE)]
  /\ BotUnchanged

\* message_processor.remove_all_links(text)
RemoveLinks(text) ==
  /\ call' = [op |-> "remove_all_links", text |-> text,
              result |-> links_removed[text]]
  /\ BotUnchanged

InitFunctions == Init /\ suite = "control"

NextFunctions ==
  \/ \E m \in SampleMessages : \E n \in SampleMinLengths : Evaluate(m, n)
  \/ \E text \in SampleTexts : \E r \in SampleReferences : Compose(text, r)
  \/ \E m \in SampleMessages : \E n \in SampleMaxLengths : ProcessContent(m, n)
  \/ \E text \in SanitizerTexts : RemoveLinks(text)

SpecFunctions == InitFunctions /\ [][NextFunctions]_vars

----------------------------------------------------------------------------
(* Vocabulary of the properties.                                           *)

Last(s) == s[Len(s)]

EndsWith(s, suffix) ==
  /\ Len(s) >= Len(suffix)
  /\ SubSeq(s, Len(s) - Len(suffix) + 1, Len(s)) = suffix

Counters ==
  <<stats.messages_forwarded, stats.messages_skipped, stats.errors_count>>

\* this step starts the task of a new event
Arrives == Len(tasks') = Len(tasks) + 1

\* this step resumes task t, which was suspended in one of the handlers hs
Resumes(t, hs) ==
  /\ t \in 1..Len(tasks)
  /\ tasks[t].handler \in hs
  /\ tasks'[t] # tasks[t]

\* this step is the one in which await `at` of task t fails
Fails(t, at) == faults' = Append(faults, Fault(t, at))

\* this step issues exactly one send, for task t
Issues(t) ==
  /\ Len(sends') = Len(sends) + 1
  /\ Last(sends').task = t
  /\ Last(sends').status = "pending"

FromAdmin(task) == task.msg.sender = config.admin_user_id

\* all the admin's commands delivered so far have been answered
CommandsCompleted ==
  \A t \in 1..Len(tasks) : FromAdmin(tasks[t]) => tasks[t].handler = "done"

TxtCheckThis ==
  <<"C","h","e","c","k"," ","t","h","i","s">>

----------------------------------------------------------------------------
(* C1.  A dispatch whose sender is not the configured admin replies        *)
(* "unauthorized" and leaves is_forwarding, the three counters, the        *)
(* command log, the error log and the configuration as they were: stated   *)
(* for every step of a task that a caller handed to the dispatcher.        *)
C1_UnauthorizedDispatchChangesNothing ==
  [][\A t \in 1..Len(tasks') :
       ( /\ ~FromAdmin(tasks'[t])
         /\ \/ Arrives /\ t = Len(tasks') /\ tasks'[t].handler = "direct"
            \/ Resumes(t, {"direct"}) )
       => /\ is_forwarding' = is_forwarding
          /\ Counters' = Counters
          /\ command_history' = command_history
          /\ error_log' = error_log
          /\ config' = config
          /\ tasks'[t].handler = "done"
               => tasks'[t].replies = <<"unauthorized">>
    ]_vars

----------------------------------------------------------------------------
(* C2.  The forwarding flag starts disabled, and a step changes it only    *)
(* when that step logs the admin's /start (the flag becomes TRUE) or the   *)
(* admin's /stop (the flag becomes FALSE); no other step changes it.       *)
C2_FlagChangesOnlyByStartStop ==
  /\ ~is_forwarding
  /\ [][is_forwarding' # is_forwarding
          => /\ Len(command_history') = Len(command_history) + 1
             /\ Last(command_history').user_id = config.admin_user_id
             /\ Last(command_history').command =
                  (IF is_forwarding' THEN K_start ELSE K_stop)
       ]_vars

\* the flag was enabled by /start and disabled again by /stop
C2_Witness ==
  /\ ~is_forwarding
  /\ Len(command_history) >= 2
  /\ Last(command_history).command = K_stop
  /\ \E k \in 1..Len(command_history) : command_history[k].command = K_start
  /\ \E t \in 1..Len(tasks) : ~FromAdmin(tasks[t])

----------------------------------------------------------------------------
(* C3.  A source-chat event that arrives while forwarding is disabled is   *)
(* dropped: the step that receives it issues no send, keeps                *)
(* messages_forwarded, messages_skipped and the error log, and leaves the  *)
(* source handler; and a send is only ever issued by a task that is inside *)
(* the source handler, so none is issued for the dropped event later.      *)
C3_DisabledSourceMessageDropped ==
  [][/\ ( /\ Arrives
          /\ Last(tasks').msg.chat = config.source_group_id
          /\ ~is_forwarding )
        => /\ sends' = sends
           /\ stats'.messages_forwarded = stats.messages_forwarded
           /\ stats'.messages_skipped = stats.messages_skipped
           /\ error_log' = error_log
           /\ Last(tasks').handler # "source"
     /\ \A k \in (Len(sends) + 1)..Len(sends') :
          /\ sends'[k].task \in 1..Len(tasks)
          /\ tasks[sends'[k].task].handler = "source"
          /\ tasks[sends'[k].task].pc = "get_me"
    ]_vars

\* a source message was received and dropped before forwarding was ever on
C3_Witness ==
  /\ suite = "control"
  /\ command_history = <<>>
  /\ ~is_forwarding
  /\ sends = <<>>
  /\ Counters = <<0, 0, 0>>
  /\ \E t \in 1..Len(tasks) :
       /\ tasks[t].msg.chat = config.source_group_id
       /\ tasks[t].handler = "done"

----------------------------------------------------------------------------
(* C4.  When the admin sends /start and then /stop, in any chat, the flag  *)
(* is enabled once the first is handled and disabled once the second is,   *)
(* and each of the two messages appends exactly one command-log entry.     *)
C4_StartThenStopLogsOneEach ==
  /\ ( /\ Len(tasks) = 1
       /\ FromAdmin(tasks[1]) /\ tasks[1].msg.text = CmdStart
       /\ tasks[1].handler = "done" )
     => is_forwarding /\ Len(command_history) = 1
  /\ ( /\ Len(tasks) = 2
       /\ FromAdmin(tasks[1]) /\ tasks[1].msg.text = CmdStart
       /\ FromAdmin(tasks[2]) /\ tasks[2].msg.text = CmdStop
       /\ tasks[1].handler = "done" /\ tasks[2].handler = "done" )
     => ~is_forwarding /\ Len(command_history) = 2

----------------------------------------------------------------------------
(* C5.  Every admin command message the transport delivered has received   *)
(* exactly one reply once its handlers are done.                           *)
C5_ExactlyOneReplyPerCommand ==
  \A t \in 1..Len(tasks) :
    (FromAdmin(tasks[t]) /\ tasks[t].handler = "done")
      => Len(tasks[t].replies) = 1

----------------------------------------------------------------------------
(* C6.  Once the admin's commands have completed, every send that is       *)
(* issued carries the reference text the configuration holds at that       *)
(* moment: the sent text ends with it (or is equal to it).                 *)
C6_UpdatedReferenceIsUsed ==
  [][CommandsCompleted
       => \A k \in (Len(sends) + 1)..Len(sends') :
            EndsWith(sends'[k].text, config.reference_text)
    ]_vars

----------------------------------------------------------------------------
(* C7.  A source message processed while forwarding is enabled has one     *)
(* outcome on the counters.  When get_me has returned and the sender is    *)
(* not the bot itself: a rejected message adds exactly 1 to                *)
(* messages_skipped, issues no send and ends the handler; an approved one  *)
(* issues its send and counts nothing yet.  When the send returns:         *)
(* messages_forwarded grows by exactly 1, last_message_time is set, and    *)
(* the handler ends.  No step moves the two counters together by more than *)
(* 1, and they grow only in a step of a task inside the source handler.    *)
C7_OneCounterOutcomePerSourceMessage ==
  [][/\ \A t \in 1..Len(tasks) :
          (Resumes(t, {"source"}) /\ ~FromAdmin(tasks[t]) /\ faults' = faults)
          => LET m == tasks[t].msg
                 approved ==
                   should_forward_message(m, config.min_message_length)[1]
                 checked == /\ tasks[t].pc = "get_me"
                            /\ m.sender \notin {"self", "channel"}
             IN  /\ (checked /\ ~approved)
                    => /\ stats'.messages_skipped = stats.messages_skipped + 1
                       /\ stats'.messages_forwarded = stats.messages_forwarded
                       /\ stats'.errors_count = stats.errors_count
                       /\ stats'.last_message_time = stats.last_message_time
                       /\ sends' = sends
                       /\ tasks'[t].handler # "source"
                 /\ (checked /\ approved)
                    => /\ Counters' = Counters
                       /\ Issues(t)
                 /\ tasks[t].pc = "send"
                    => /\ stats'.messages_forwarded
                            = stats.messages_forwarded + 1
                       /\ stats'.last_message_time = clock
                       /\ stats'.messages_skipped = stats.messages_skipped
                       /\ stats'.errors_count = stats.errors_count
                       /\ Len(sends') = Len(sends)
                       /\ tasks'[t].handler # "source"
     /\ ( \/ stats'.messages_forwarded > stats.messages_forwarded
          \/ stats'.messages_skipped > stats.messages_skipped )
        => /\ \E t \in 1..Len(tasks) : Resumes(t, {"source"})
           /\ stats'.messages_forwarded + stats'.messages_skipped
                = stats.messages_forwarded + stats.messages_skipped + 1
    ]_vars

\* one message was forwarded and another was skipped
C7_Witness ==
  /\ stats.messages_forwarded = 1
  /\ stats.messages_skipped = 1
  /\ stats.last_message_time # NoTime
  /\ \E k \in 1..Len(sends) : sends[k].status = "sent"
  /\ \A t \in 1..Len(tasks) : tasks[t].handler = "done"

----------------------------------------------------------------------------
(* C8.  When the send of an approved message fails, that step appends      *)
(* exactly one error-log entry and adds 1 to errors_count, keeps           *)
(* messages_forwarded, messages_skipped, last_message_time and             *)
(* is_forwarding, issues no further send and ends the handler; and no      *)
(* event ever has more than one send.                                      *)
C8_SendFailureLoggedNotRetried ==
  /\ [](\A j, k \in 1..Len(sends) : sends[j].task = sends[k].task => j = k)
  /\ [][\A t \in 1..Len(tasks) :
          (Fails(t, "send") /\ ~FromAdmin(tasks[t]))
          => /\ Len(error_log') = Len(error_log) + 1
             /\ Last(error_log').type = "Message processing error"
             /\ stats'.errors_count = stats.errors_count + 1
             /\ stats'.messages_forwarded = stats.messages_forwarded
             /\ stats'.messages_skipped = stats.messages_skipped
             /\ stats'.last_message_time = stats.last_message_time
             /\ is_forwarding' = is_forwarding
             /\ Len(sends') = Len(sends)
             /\ \E k \in 1..Len(sends) :
                  /\ sends[k].task = t
                  /\ sends[k].status = "pending"
                  /\ sends'[k].status = "failed"
             /\ tasks'[t].handler # "source"
       ]_vars

\* a send failed: one error entry, nothing forwarded, nothing skipped
C8_Witness ==
  /\ \E k \in 1..Len(sends) :
       sends[k].status = "failed" /\ tasks[sends[k].task].handler = "done"
  /\ Len(error_log) = 1
  /\ Counters = <<0, 0, 1>>
  /\ stats.last_message_time = NoTime

----------------------------------------------------------------------------
(* C9.  When sanitizing or composing the text of an approved message       *)
(* raises, that step appends an error-log entry, adds 1 to errors_count,   *)
(* issues no send and does not add to messages_skipped.                    *)
C9_ContentFailureIsLoggedNotSkipped ==
  [][\A t \in 1..Len(tasks) :
       Fails(t, "content")
       => /\ Len(error_log') = Len(error_log) + 1
          /\ stats'.errors_count = stats.errors_count + 1
          /\ stats'.messages_skipped = stats.messages_skipped
          /\ sends' = sends
    ]_vars

----------------------------------------------------------------------------
(* C10.  While forwarding is enabled, when get_me has returned for a       *)
(* message of a user: a text of at least min_message_length characters     *)
(* whose link-free form is shorter than 5 characters (empty included) is   *)
(* not forwarded, it adds 1 to messages_skipped and issues no send; the    *)
(* text "Check this https://spam.example/x @spamuser" keeps the body       *)
(* "Check this" and is sent as that body, a blank line and the reference   *)
(* text of the message processor; the reference text alone is what is sent *)
(* for a message with media and no text.                                   *)
C10_LinkOnlyTextIsSkipped ==
  [][\A t \in 1..Len(tasks) :
       ( /\ Resumes(t, {"source"})
         /\ tasks[t].pc = "get_me"
         /\ tasks[t].msg.sender = "user" /\ ~tasks[t].msg.sender_bot
         /\ faults' = faults )
       => LET m == tasks[t].msg
          IN  /\ ( /\ Len(strip(m.text)) >= config.min_message_length
                   /\ Len(strip(links_removed[m.text])) < MinStrippedLength )
                 => /\ stats'.messages_skipped = stats.messages_skipped + 1
                    /\ stats'.messages_forwarded = stats.messages_forwarded
                    /\ sends' = sends
              /\ m.text = TxtExample
                 => /\ Issues(t)
                    /\ Last(sends').text =
                         TxtCheckThis \o <<"\n", "\n">>
                           \o message_processor.reference_text
              /\ (m.text = <<>> /\ m.media)
                 => /\ Issues(t)
                    /\ Last(sends').text = message_processor.reference_text
    ]_vars

\* the example was sent with its body and a link-only text was skipped
C10_Witness ==
  /\ \E k \in 1..Len(sends) :
       /\ tasks[sends[k].task].msg.text = TxtExample
       /\ sends[k].text = TxtCheckThis \o <<"\n", "\n">> \o DefaultReference
       /\ sends[k].status = "sent"
  /\ \E t \in 1..Len(tasks) :
       /\ tasks[t].msg.text = TxtLinks
       /\ tasks[t].handler = "done"
  /\ stats.messages_skipped = 1
  /\ stats.messages_forwarded = 1

(* C10 as the specification words it: a text of at least                   *)
(* min_message_length characters whose link-free form is empty, the        *)
(* example included, is sent as the reference text alone.                  *)
C10_EmptyBodySentAsReference ==
  [][\A t \in 1..Len(tasks) :
       ( /\ Resumes(t, {"source"})
         /\ tasks[t].pc = "get_me"
         /\ tasks[t].msg.sender = "user" /\ ~tasks[t].msg.sender_bot
         /\ faults' = faults
         /\ Len(tasks[t].msg.text) >= config.min_message_length
         /\ \/ links_removed[tasks[t].msg.text] = <<>>
            \/ tasks[t].msg.text = TxtExample )
       => /\ Issues(t)
          /\ Last(sends').text = config.reference_text
    ]_vars

----------------------------------------------------------------------------
(* C11.  should_forward_message returns the verdict of the first rule that *)
(* applies, in this order: no text and no media is rejected as empty; a    *)
(* text whose trimmed length is below min_length is rejected as too short, *)
(* with media or a bot sender as well; a text whose link-free form has a   *)
(* trimmed length below 5 is rejected as link-only; a bot sender is        *)
(* rejected; anything else is approved, a media-only message of a user     *)
(* included.                                                               *)
C11_FirstMatchingRuleWins ==
  call.op = "should_forward_message"
  => LET m == call.message
         has_text == m.text # <<>>
         empty == ~has_text /\ ~m.media
         too_short == has_text /\ Len(strip(m.text)) < call.min_length
         link_only ==
           has_text /\ Len(strip(links_removed[m.text])) < MinStrippedLength
     IN  /\ empty => call.result = <<FALSE, "Empty message">>
         /\ too_short => call.result = <<FALSE, "Message too short">>
         /\ (~too_short /\ link_only)
            => call.result = <<FALSE, "Message contains only links">>
         /\ (~empty /\ ~too_short /\ ~link_only /\ m.sender_bot)
            => call.result = <<FALSE, "Message from bot">>
         /\ (~empty /\ ~too_short /\ ~link_only /\ ~m.sender_bot)
            => call.result = <<TRUE, "Message approved for forwarding">>
         /\ (~has_text /\ m.media /\ ~m.sender_bot) => call.result[1]

\* a short text with media from a bot was rejected as too short
C11_Witness ==
  /\ call.op = "should_forward_message"
  /\ call.message.text = TxtShort
  /\ call.message.media /\ call.message.sender_bot
  /\ call.min_length = DefaultMinMessageLength
  /\ call.result = <<FALSE, "Message too short">>

----------------------------------------------------------------------------
(* C12.  The command log never holds more than 100 entries, and it is      *)
(* first-in first-out: a step that changes it either clears it (the reset) *)
(* or appends one entry at the end, after dropping the oldest entry when   *)
(* 100 were present; the entries kept stay in their order.                 *)
C12_CommandLogIsBoundedFifo ==
  /\ [](Len(command_history) <= MaxCommandHistory)
  /\ [][command_history' # command_history
          => \/ command_history' = <<>>
             \/ command_history' =
                  (IF Len(command_history) = MaxCommandHistory
                     THEN Tail(command_history) ELSE command_history)
                    \o <<Last(command_history')>>
       ]_vars

\* a command was logged with 100 entries present: the oldest one is gone
C12_Witness ==
  /\ Len(command_history) = MaxCommandHistory
  /\ command_history[1].timestamp = 2 - MaxCommandHistory
  /\ Last(command_history).timestamp >= 1

----------------------------------------------------------------------------
(* C13.  The error log never holds more than 50 entries and errors_count   *)
(* is never below its length.  A step that changes either of them is a     *)
(* reset (the log empty, the count 0) or one append: errors_count grows by *)
(* exactly 1 and the entry goes to the end, the oldest entry being dropped *)
(* when 50 were present.                                                   *)
C13_ErrorLogBoundedAndCounted ==
  /\ [](/\ Len(error_log) <= MaxErrorLog
        /\ stats.errors_count >= Len(error_log))
  /\ [][(error_log' # error_log \/ stats'.errors_count # stats.errors_count)
          => \/ error_log' = <<>> /\ stats'.errors_count = 0
             \/ /\ stats'.errors_count = stats.errors_count + 1
                /\ error_log' # <<>>
                /\ error_log' =
                     (IF Len(error_log) = MaxErrorLog
                        THEN Tail(error_log) ELSE error_log)
                       \o <<Last(error_log')>>
       ]_vars

\* an error was logged with 50 entries present: the oldest one is gone
C13_Witness ==
  /\ Len(error_log) = MaxErrorLog
  /\ error_log[1].timestamp = 2 - MaxErrorLog
  /\ Last(error_log).timestamp >= 1
  /\ stats.errors_count = MaxErrorLog + 1

----------------------------------------------------------------------------
(* Vocabulary of the properties about single commands.                     *)

\* in this step the dispatcher ran the command of task t up to its reply
Handles(t, reply) ==
  /\ t \in 1..Len(tasks')
  /\ tasks'[t].handler \in Dispatchers
  /\ tasks'[t].pc = "reply"
  /\ tasks'[t].pending = reply
  /\ \/ t > Len(tasks)
     \/ tasks[t].handler # tasks'[t].handler
     \/ tasks[t].pc # "reply"

\* in this step the reply of task t, which was `reply`, is delivered
Answers(t, reply) ==
  /\ Resumes(t, Dispatchers)
  /\ tasks[t].pc = "reply"
  /\ tasks[t].pending = reply
  /\ faults' = faults

----------------------------------------------------------------------------
Dispatches(t) ==
  /\ t \in 1..Len(tasks')
  /\ tasks'[t].handler \in Dispatchers
  /\ t > Len(tasks) \/ tasks[t].handler # tasks'[t].handler

\* in this step the dispatcher is done with the event of task t
Completes(t) ==
  /\ t \in 1..Len(tasks)
  /\ tasks[t].handler \in Dispatchers
  /\ tasks'[t].handler # tasks[t].handler

\* the entry log_command writes for the command line of message m
IsEntryOf(entry, m) ==
  /\ entry.command = ParseCommand(m.text).command
  /\ entry.args = ParseCommand(m.text).args
  /\ entry.user_id = m.sender

----------------------------------------------------------------------------
KnownCommands ==
  { K_start, K_stop, K_status, K_stats, K_help, K_config, K_logs,
    K_reset_stats, K_test, K_update_reference, K_update_channel }

----------------------------------------------------------------------------
----------------------------------------------------------------------------
(* Vocabulary of C17: the update commands sent without an argument, and    *)
(* the usage reply each of them gets.                                      *)

WithoutArgs == {CmdUpdateReferenceNoArgs, CmdUpdateChannelNoArgs}

UsageReply(text) ==
  IF text = CmdUpdateReferenceNoArgs THEN "usage update_reference"
  ELSE "usage update_channel"

----------------------------------------------------------------------------
----------------------------------------------------------------------------
(* C18.  add_custom_reference returns the reference text itself, with      *)
(* nothing before it, for an empty text, and for any other text the text,  *)
(* two newlines and the reference text, in this order and nothing else.    *)
C18_ReferenceIsAppended ==
  call.op = "add_custom_reference"
  => /\ call.text = <<>> => call.result = call.reference_text
     /\ call.text # <<>>
          => /\ Len(call.result) = Len(call.text) + 2 + Len(call.reference_text)
             /\ SubSeq(call.result, 1, Len(call.text)) = call.text
             /\ call.result[Len(call.text) + 1] = "\n"
             /\ call.result[Len(call.text) + 2] = "\n"
             /\ EndsWith(call.result, call.reference_text)

\* the reference of an empty text is the reference text alone
C18_Witness ==
  /\ call.op = "add_custom_reference"
  /\ call.text = <<>>
  /\ call.reference_text = DefaultReference
  /\ call.result = DefaultReference

----------------------------------------------------------------------------
(* C19.  process_message_content leaves a body of at most                  *)
(* max_message_length characters as it is; a longer body becomes its first *)
(* max_message_length - 3 characters and "...", max_message_length         *)
(* characters in all; the reference is appended afterwards, so the result  *)
(* is the body kept, two newlines and the reference text.                  *)
C19_TruncationBoundary ==
  call.op = "process_message_content"
  => LET body == links_removed_and_cleaned[call.message.text]
         limit == call.max_message_length
         kept == Len(call.result) - 2 - Len(call.reference_text)
     IN  /\ (body # <<>> /\ Len(body) <= limit)
            => call.result = body \o <<"\n", "\n">> \o call.reference_text
         /\ Len(body) > limit
            => /\ kept = limit
               /\ SubSeq(call.result, 1, limit - 3)
                    = SubSeq(body, 1, limit - 3)
               /\ SubSeq(call.result, limit - 2, limit) = <<".", ".", ".">>
               /\ EndsWith(call.result,
                           <<"\n", "\n">> \o call.reference_text)

----------------------------------------------------------------------------
(* C20.  remove_all_links is idempotent: called on a text it returned, it  *)
(* returns that text unchanged, also when the removal of a mention or a    *)
(* link has joined its neighbours into a new link-shaped token.            *)
C20_RemoveAllLinksIsIdempotent ==
  [][( /\ call.op = "remove_all_links"
       /\ call'.op = "remove_all_links"
       /\ call'.text = call.result )
     => call'.result = call'.text
    ]_vars

----------------------------------------------------------------------------
(* Vocabulary of the properties about what remove_all_links leaves.        *)

\* the text holds a mention: "@" and at least one word character
HasMention(t) == \E i \in 1..Len(t) : m_mention(t, i) > 0

\* the text holds a URL that starts with http:// or https://
HasHttpUrl(t) == \E i \in 1..Len(t) : m_http(t, i) > 0

----------------------------------------------------------------------------
(* C21.  What remove_all_links returns holds no mention ("@" followed by a *)
(* word character) and no URL starting with http:// or https://, whatever  *)
(* the text it was called on.                                              *)
C21_NoMentionNoHttpLeft ==
  call.op = "remove_all_links"
  => /\ ~HasMention(call.result)
     /\ ~HasHttpUrl(call.result)

----------------------------------------------------------------------------
(* C22.  What remove_all_links returns is never longer than the text it    *)
(* was called on.                                                          *)
C22_RemoveAllLinksNeverGrows ==
  call.op = "remove_all_links" => Len(call.result) <= Len(call.text)

\* the example lost its link and its mention and kept "Check this"
C22_Witness ==
  /\ call.op = "remove_all_links"
  /\ call.text = TxtExample
  /\ call.result = TxtCheckThis
  /\ Len(call.result) < Len(call.text)

----------------------------------------------------------------------------
(* C23.  A configuration that construction has accepted has               *)
(* min_message_length >= 0 and max_message_length > min_message_length,    *)
(* when the bot starts and in every state it reaches afterwards.           *)
C23_AcceptedConfigHasOrderedLengths ==
  (process.pc # "construct" /\ get_config(config) = {})
  => /\ config.min_message_length >= 0
     /\ config.max_message_length > config.min_message_length

----------------------------------------------------------------------------
(* Vocabulary of C24: startup has failed when the validation of the        *)
(* configuration has found an error, or when client.start, get_me or one   *)
(* of the two get_entity calls has raised.                                 *)

StartupFailed ==
  \/ process.pc # "construct" /\ get_config(config) # {}
  \/ \E k \in 1..Len(faults) :
       /\ faults[k].task = 0
       /\ faults[k].at \in {StartAwaits[j] : j \in 1..4}

----------------------------------------------------------------------------
(* C24.  Once startup has failed the bot never listens and serves no       *)
(* event, and when the process has exited its exit status is not 0.        *)
C24_StartupFailureIsFatal ==
  StartupFailed
  => /\ process.pc # "listening"
     /\ tasks = <<>>
     /\ process.pc = "exited" => process.exit_code # 0

----------------------------------------------------------------------------
(* Vocabulary of C25.                                                      *)

\* none of the tasks ts is a /reset_stats of the admin
NoResetIn(ts) ==
  \A t \in 1..Len(ts) :
    FromAdmin(ts[t]) => ParseCommand(ts[t].msg.text).command # K_reset_stats

\* the admin has not sent /reset_stats in this run
NoReset == NoResetIn(tasks)

\* the sends to the destination that completed successfully
SentCount == Cardinality({k \in 1..Len(sends) : sends[k].status = "sent"})

\* in this step get_me returns for task t and should_forward_message
\* rejects its message
Rejects(t) ==
  /\ Resumes(t, {"source"})
  /\ tasks[t].pc = "get_me"
  /\ \A k \in 1..Len(faults') : faults'[k] # Fault(t, "get_me")
  /\ tasks[t].msg.sender \notin {"self", "channel"}
  /\ ~should_forward_message(tasks[t].msg, config.min_message_length)[1]

----------------------------------------------------------------------------
(* C25.  In a run without /reset_stats, however the tasks of source        *)
(* messages and of admin commands interleave at their awaits,              *)
(* messages_forwarded is the number of sends that completed successfully,  *)
(* and messages_skipped is the number of rejected messages: it starts at 0 *)
(* and every step adds to it the number of messages rejected in that step. *)
C25_CountersMatchOutcomes ==
  /\ [](NoReset
          => /\ stats.messages_forwarded = SentCount
             /\ tasks = <<>> => stats.messages_skipped = 0)
  /\ [][NoResetIn(tasks')
          => stats'.messages_skipped - stats.messages_skipped
               = Cardinality({t \in 1..Len(tasks) : Rejects(t)})
       ]_vars

----------------------------------------------------------------------------
(* C26.  A source message sent by the account the bot runs as is never     *)
(* relayed: no send is ever issued for it, and no step of its task, from   *)
(* its arrival on, issues a send or changes messages_forwarded,            *)
(* messages_skipped or last_message_time.                                  *)
C26_SelfAuthoredNeverRelayed ==
  /\ [](\A k \in 1..Len(sends) : tasks[sends[k].task].msg.sender # "self")
  /\ [][\A t \in 1..Len(tasks') :
          ( /\ tasks'[t].msg.sender = "self"
            /\ tasks'[t].msg.chat = config.source_group_id
            /\ (Arrives /\ t = Len(tasks')) \/ Resumes(t, {"source"}) )
          => /\ sends' = sends
             /\ stats'.messages_forwarded = stats.messages_forwarded
             /\ stats'.messages_skipped = stats.messages_skipped
             /\ stats'.last_message_time = stats.last_message_time
       ]_vars

\* a message of the bot itself was processed while forwarding was enabled
C26_Witness ==
  /\ is_forwarding
  /\ Len(tasks) = 2
  /\ tasks[1].msg.text = CmdStart
  /\ tasks[2].msg.sender = "self"
  /\ tasks[2].msg.chat = config.source_group_id
  /\ tasks[2].handler = "done"
  /\ faults = <<>>
  /\ sends = <<>>
  /\ Counters = <<0, 0, 0>>

----------------------------------------------------------------------------
----------------------------------------------------------------------------
(* Vocabulary of C28 and C29.                                              *)

\* in this step the dispatcher takes up the admin's `command` with non-empty
\* arguments, which are args
Updates(command, args) ==
  \E t \in 1..Len(tasks') :
    /\ Dispatches(t)
    /\ FromAdmin(tasks'[t])
    /\ ParseCommand(tasks'[t].msg.text).command = command
    /\ ParseCommand(tasks'[t].msg.text).args = args
    /\ args # <<>>

TxtNewLink ==
  <<"t",".","m","e","/","n","e","w">>

TxtNewRef ==
  <<"N","e","w"," ","r","e","f">>

----------------------------------------------------------------------------
(* C28.  Every send carries the button built from channel_link as the      *)
(* configuration holds it in the step that issues the send.  The step in   *)
(* which the dispatcher takes up the admin's /update_channel with a        *)
(* non-empty argument sets channel_link to that argument, and no other     *)
(* step changes channel_link: so every send issued after the update        *)
(* carries the new link.                                                   *)
C28_ButtonCarriesCurrentLink ==
  [][/\ \A k \in (Len(sends) + 1)..Len(sends') :
          /\ sends'[k].buttons = config.channel_link
          /\ config' = config
     /\ \A k \in 1..Len(sends) : sends'[k].buttons = sends[k].buttons
     /\ \A link \in {TxtNewLink} :
          Updates(K_update_channel, link) => config'.channel_link = link
     /\ config'.channel_link # config.channel_link
        => Updates(K_update_channel, config'.channel_link)
    ]_vars

\* a message was forwarded after /update_channel with the new link
C28_Witness ==
  /\ config.channel_link = TxtNewLink
  /\ \E k \in 1..Len(sends) :
       /\ sends[k].buttons = TxtNewLink
       /\ sends[k].status = "sent"
  /\ stats.messages_forwarded = 1

----------------------------------------------------------------------------
(* C29.  A step changes the configuration only when the dispatcher takes   *)
(* up the admin's /update_reference or /update_channel with a non-empty    *)
(* argument, and then only reference_text, respectively channel_link,      *)
(* changes: min_message_length, max_message_length, forward_media, the     *)
(* admin id and the two chat ids are the ones of construction in every     *)
(* state.                                                                  *)
C29_OnlyReferenceAndLinkChange ==
  /\ [](\E initial \in Suites[suite].configs :
          config = [initial EXCEPT !.reference_text = config.reference_text,
                                   !.channel_link = config.channel_link])
  /\ [][/\ config'.reference_text # config.reference_text
           => /\ Updates(K_update_reference, config'.reference_text)
              /\ config' = update_reference_text(config,
                                                 config'.reference_text)
        /\ config'.channel_link # config.channel_link
           => /\ Updates(K_update_channel, config'.channel_link)
              /\ config' = update_channel_link(config, config'.channel_link)
       ]_vars

\* both updates were applied and a message was forwarded: the other fields
\* are those of construction
C29_Witness ==
  /\ config.reference_text = TxtNewRef
  /\ config.channel_link = TxtNewLink
  /\ config = [DefaultConfig EXCEPT !.reference_text = TxtNewRef,
                                    !.channel_link = TxtNewLink]
  /\ \A t \in 1..Len(tasks) : tasks[t].handler = "done"

----------------------------------------------------------------------------
(* Vocabulary of C30.                                                      *)

\* the trimmed command line cut at its first space, tab or line break: the
\* part before it in lower case, and the remainder
SplitAtWhitespace(text) ==
  LET message_text == strip(text)
      blanks == {j \in 1..Len(message_text) : message_text[j] \in SpaceCh}
      cut == IF blanks = {} THEN Len(message_text) + 1 ELSE MinOf(blanks)
  IN  [command |-> lower_str(SubSeq(message_text, 1, cut - 1)),
       args |-> SubSeq(message_text, cut + 1, Len(message_text))]

----------------------------------------------------------------------------
(* C30.  The step in which the dispatcher takes up a command line of the   *)
(* admin acts on the line cut at its first space, tab or line break: the   *)
(* entry it logs has the part before the cut, in lower case, as command    *)
(* and the remainder as args (unless the command is /reset_stats, which    *)
(* clears the log); /stop in any case stops forwarding; and                *)
(* /update_reference followed by a space, a tab or a line break and a      *)
(* text sets reference_text to that text.                                  *)
C30_SplitsAtFirstWhitespace ==
  [][\A t \in 1..Len(tasks') :
       (Dispatches(t) /\ FromAdmin(tasks'[t]))
       => LET parts == SplitAtWhitespace(tasks'[t].msg.text)
          IN  /\ parts.command # K_reset_stats
                 => /\ command_history' # <<>>
                    /\ Last(command_history').command = parts.command
                    /\ Last(command_history').args = parts.args
              /\ parts.command = K_stop => ~is_forwarding'
              /\ (parts.command = K_update_reference /\ parts.args # <<>>)
                 => config'.reference_text = parts.args
    ]_vars

----------------------------------------------------------------------------
(* Vocabulary of C31.                                                      *)

\* the three checks of /test, in the order in which they are attempted
TestChecks == <<"test_me", "test_source", "test_dest">>

\* task t is suspended at check number k of /test
AtCheck(t, k) ==
  /\ t \in 1..Len(tasks)
  /\ tasks[t].handler \in Dispatchers
  /\ tasks[t].pc = TestChecks[k]

\* this step leaves the forwarding flag, the statistics, the error log and
\* the configuration as they were
KeepsBotState ==
  /\ is_forwarding' = is_forwarding
  /\ stats' = stats
  /\ error_log' = error_log
  /\ config' = config

----------------------------------------------------------------------------
----------------------------------------------------------------------------
(* C32.  While is_forwarding is off nothing is forwarded: a step taken in  *)
(* a state where the flag is off issues no send and raises neither         *)
(* messages_forwarded nor messages_skipped, whatever tasks were suspended  *)
(* at get_me or at the send when /stop was handled.                        *)
C32_NoForwardingWhileDisabled ==
  [][~is_forwarding
     => /\ Len(sends') = Len(sends)
        /\ stats'.messages_forwarded <= stats.messages_forwarded
        /\ stats'.messages_skipped <= stats.messages_skipped
    ]_vars

----------------------------------------------------------------------------
(* C33.  In every reachable state the flag that /status reports,           *)
(* stats.is_active, equals the flag that gates forwarding, is_forwarding.  *)
C33_StatusAgreesWithFlag ==
  stats.is_active = is_forwarding

----------------------------------------------------------------------------
(* Vocabulary of C34 and C37.                                              *)

\* the await `at` of the process has finished with outcome ok
HasAwaited(at, ok) ==
  \E k \in 1..Len(process.awaited) :
    process.awaited[k] = [at |-> at, ok |-> ok]

Resolutions == {"get_entity source", "get_entity destination"}

----------------------------------------------------------------------------
(* C34.  The handlers are registered only after client.start and both      *)
(* get_entity calls have returned; once one of the two resolutions has     *)
(* raised they are not registered in any later state; and as long as they  *)
(* are not registered no event has been taken up: no task, no send, no     *)
(* logged command.                                                         *)
C34_HandlersAfterResolution ==
  /\ process.registered
     => /\ HasAwaited("client.start", TRUE)
        /\ \A at \in Resolutions : HasAwaited(at, TRUE)
  /\ (\E at \in Resolutions : HasAwaited(at, FALSE)) => ~process.registered
  /\ ~process.registered
     => /\ tasks = <<>>
        /\ sends = <<>>
        /\ command_history = <<>>

\* the source was resolved, the destination was not, and the process has
\* shut down and exited without having served an event
C34_Witness ==
  /\ HasAwaited("client.start", TRUE)
  /\ HasAwaited("get_entity source", TRUE)
  /\ HasAwaited("get_entity destination", FALSE)
  /\ process.pc = "exited"
  /\ ~process.registered
  /\ tasks = <<>>

----------------------------------------------------------------------------
(* Vocabulary of C35.                                                      *)

ReadOnlyCommands == {K_status, K_stats, K_help, K_config, K_logs}

\* this step is a step of the dispatch of a read-only command of the admin,
\* which is task t
ReadOnlyStep(t) ==
  /\ Dispatches(t) \/ Resumes(t, Dispatchers)
  /\ FromAdmin(tasks'[t])
  /\ ParseCommand(tasks'[t].msg.text).command \in ReadOnlyCommands

----------------------------------------------------------------------------
----------------------------------------------------------------------------
(* Vocabulary of C36.                                                      *)

\* the four ids the settings give
Ids(cfg) ==
  {cfg.api_id, cfg.source_group_id, cfg.destination_group_id,
   cfg.admin_user_id}

\* the settings give the same chat twice, or leave an id out or at 0
Unusable(cfg) ==
  \/ cfg.source_group_id = cfg.destination_group_id
  \/ Ids(cfg) \cap {ZeroId, Missing} # {}

----------------------------------------------------------------------------
(* C36.  Once construction has run on settings whose source and            *)
(* destination ids are equal, or one of whose four ids is missing or 0, it *)
(* has raised: no configuration is installed and the process has exited    *)
(* with the exception.  Whenever a configuration is installed, its source  *)
(* and destination ids differ and none of its four ids is missing or 0.    *)
C36_ConstructionValidatesIds ==
  /\ (process.pc # "construct" /\ Unusable(config))
     => /\ ~process.configured
        /\ process.pc = "exited"
        /\ process.raised = "Exception"
  /\ process.configured
     => /\ config.source_group_id # config.destination_group_id
        /\ Ids(config) \cap {ZeroId, Missing} = {}

\* construction has refused settings that name one chat as source and as
\* destination, all ids being set and not 0
C36_Witness ==
  /\ config.source_group_id = config.destination_group_id
  /\ Ids(config) \cap {ZeroId, Missing} = {}
  /\ process.pc = "exited"
  /\ ~process.configured
  /\ process.raised = "Exception"

----------------------------------------------------------------------------
(* C37.  Shutdown is best-effort about its notification.  The step that    *)
(* ends the send of the shutdown notice, whether the send returned or      *)
(* raised, goes on to await the disconnect and raises nothing; the step    *)
(* that ends the disconnect, whether it returned or raised, completes the  *)
(* shutdown: the process exits with the status that the run had earned     *)
(* before the shutdown, and the exception that main() holds is the one it  *)
(* held before.  Neither step touches the error log or the statistics.     *)
C37_ShutdownIsBestEffort ==
  [][/\ (process.pc = "shutdown" /\ process' # process)
        => /\ process'.pc = "disconnect"
           /\ process'.awaited =
                Append(process.awaited,
                       [at |-> "notice", ok |-> (faults' = faults)])
           /\ process'.raised = process.raised
           /\ error_log' = error_log
           /\ stats' = stats
     /\ (process.pc = "disconnect" /\ process' # process)
        => /\ process'.pc = "exited"
           /\ HasAwaited("notice", TRUE) \/ HasAwaited("notice", FALSE)
           /\ process'.awaited =
                Append(process.awaited,
                       [at |-> "disconnect", ok |-> (faults' = faults)])
           /\ process'.raised = process.raised
           /\ process'.exit_code = run_main(process.raised)
           /\ error_log' = error_log
           /\ stats' = stats
    ]_vars

\* the bot had listened and stopped normally; the shutdown notice could
\* not be sent, the client was disconnected and the process has exited
C37_Witness ==
  /\ HasAwaited("run_until_disconnected", TRUE)
  /\ HasAwaited("notice", FALSE)
  /\ HasAwaited("disconnect", TRUE)
  /\ process.pc = "exited"
  /\ process.raised = "none"
  /\ process.exit_code = 0

====
